---------------------------- MODULE Spec2Model ----------------------------
(***************************************************************************)
(* A model of the appeer publication database core:                        *)
(*   - parse/parsers/date_utils.py : normalize_date_2iso                   *)
(*   - parse/parsers/date_utils.py : get_d_M_y, normalize_d_M_y,           *)
(*                                   earliest_date, latest_date            *)
(*   - db/tables/pub.py            : Pub.add_entry, update_entry,          *)
(*                                   delete_entry, _prepare_filters,       *)
(*                                   get_publisher_summary,                *)
(*                                   get_journal_summary                   *)
(*   - pub/analyzer.py             : PubAnalyzer                           *)
(*   - pub/researcher.py           : PubReSearcher                         *)
(*                                                                         *)
(* A Python str is modelled as a sequence of one-character strings, so     *)
(* that split(), int(), str() and zero padding are computed, not assumed.  *)
(* A Python value is a record [type, chars, items]: a str carries its      *)
(* characters, a list its items, any other value only its type.            *)
(***************************************************************************)
EXTENDS Integers, Sequences, FiniteSets, TLC

VARIABLES
    table,          \* the rows of the ``pub`` table, in rowid order
    before,         \* the rows of the table when the last operation began
    op,             \* the last table operation called, with its arguments
    ret,            \* what that operation returned or raised
    queries,        \* the summary queries that operation executed, in order
    date,           \* the argument given to normalize_date_2iso
    normalized,     \* normalize_date_2iso(date), or "pending"
    renormalized,   \* normalize_date_2iso applied to its own output
    kwargs,         \* the keyword arguments given to _prepare_filters
    compiled,       \* _prepare_filters(**kwargs), or "pending"
    entry,          \* the argument given to get_d_M_y
    found,          \* get_d_M_y(entry), or "pending"
    fragment,       \* the argument given to normalize_d_M_y
    dMy,            \* normalize_d_M_y(fragment), or "pending"
    date_list,      \* the argument given to earliest_date and latest_date
    earliest,       \* earliest_date(date_list), or "pending"
    latest,         \* latest_date(date_list), or "pending"
    filtered_pubs,  \* the argument given to PubAnalyzer.load_data
    analyzer_filtered_pubs, \* PubAnalyzer._filtered_pubs
    summary,        \* PubAnalyzer.basic_search_results, or "pending"
    researcher_filtered_pubs, \* PubReSearcher.filtered_pubs
    search_performed, \* PubReSearcher._search_performed
    report,         \* PubReSearcher.search_summary as last read, or "pending"
    has_returned    \* a search_pub call has returned

tableVars == <<table, before, op, ret, queries>>
dateVars == <<date, normalized, renormalized>>
filterVars == <<kwargs, compiled>>
textVars == <<entry, found, fragment, dMy>>
extremeVars == <<date_list, earliest, latest>>
analyzerVars == <<filtered_pubs, analyzer_filtered_pubs, summary>>
researcherVars ==
    <<researcher_filtered_pubs, search_performed, report, has_returned>>

vars ==
    <<tableVars, dateVars, filterVars, textVars, extremeVars, analyzerVars,
      researcherVars>>

-----------------------------------------------------------------------------
(* Python values *)

PyStr(cs) == [type |-> "str", chars |-> cs, items |-> <<>>]
PyList(xs) == [type |-> "list", chars |-> <<>>, items |-> xs]
PyInt(cs) == [type |-> "int", chars |-> cs, items |-> <<>>]
PyNone == [type |-> "NoneType", chars |-> <<>>, items |-> <<>>]

isinstance_str(v) == v.type = "str"

(* Outcomes of a call: a returned value or a raised exception.  ``cause``  *)
(* is the message of the exception named by ``raise ... from exc``.        *)
Returned(v) == [exc |-> "none", msg |-> "", cause |-> "", val |-> v]
Raised(e, m, c) == [exc |-> e, msg |-> m, cause |-> c, val |-> <<>>]

-----------------------------------------------------------------------------
(* str.split, int(), str(int) *)

Digit == {"0", "1", "2", "3", "4", "5", "6", "7", "8", "9"}

DigitVal(c) ==
    CASE c = "0" -> 0 [] c = "1" -> 1 [] c = "2" -> 2 [] c = "3" -> 3
      [] c = "4" -> 4 [] c = "5" -> 5 [] c = "6" -> 6 [] c = "7" -> 7
      [] c = "8" -> 8 [] c = "9" -> 9

RECURSIVE SplitFrom(_, _, _, _)
SplitFrom(s, sep, i, cur) ==
    IF i > Len(s) THEN <<cur>>
    ELSE IF s[i] = sep THEN <<cur>> \o SplitFrom(s, sep, i + 1, <<>>)
    ELSE SplitFrom(s, sep, i + 1, Append(cur, s[i]))

\* s.split(sep) for a one-character separator: n separators give n+1 parts
str_split(s, sep) == SplitFrom(s, sep, 1, <<>>)

RECURSIVE LStrip(_)
LStrip(s) == IF s # <<>> /\ Head(s) = " " THEN LStrip(Tail(s)) ELSE s

RECURSIVE RStrip(_)
RStrip(s) ==
    IF s # <<>> /\ s[Len(s)] = " " THEN RStrip(SubSeq(s, 1, Len(s) - 1)) ELSE s

RECURSIVE DropLeadingZeros(_)
DropLeadingZeros(s) ==
    IF Len(s) > 1 /\ Head(s) = "0" THEN DropLeadingZeros(Tail(s)) ELSE s

\* the body of an integer literal: digits, single underscores between them
IsIntBody(b) ==
    /\ b # <<>>
    /\ \A i \in 1..Len(b) : b[i] \in Digit \/ b[i] = "_"
    /\ b[1] # "_"
    /\ b[Len(b)] # "_"
    /\ \A i \in 1..(Len(b) - 1) : ~(b[i] = "_" /\ b[i + 1] = "_")

\* int(s) for a str s.  A Python int has no width: it is kept as its sign
\* and its canonical decimal digits.  ok = FALSE stands for ValueError.
int(s) ==
    LET t == RStrip(LStrip(s))
        signed == t # <<>> /\ Head(t) \in {"+", "-"}
        body == IF signed THEN Tail(t) ELSE t
        digits == DropLeadingZeros(SelectSeq(body, LAMBDA c : c # "_"))
    IN  IF IsIntBody(body)
        THEN [ok |-> TRUE,
              neg |-> signed /\ Head(t) = "-" /\ digits # <<"0">>,
              digits |-> digits]
        ELSE [ok |-> FALSE, neg |-> FALSE, digits |-> <<>>]

\* str(n)
str(n) == IF n.neg THEN <<"-">> \o n.digits ELSE n.digits

\* the digit of a number below ten
DigitOf(n) == CHOOSE c \in Digit : DigitVal(c) = n

RECURSIVE ZeroPadded(_, _)
\* '%0*d' % (width, n) for a natural number n
ZeroPadded(n, width) ==
    IF n < 10 /\ width <= 1 THEN <<DigitOf(n)>>
    ELSE ZeroPadded(n \div 10, width - 1) \o <<DigitOf(n % 10)>>

\* largest value of a C int, the width datetime's constructor parses into
CIntMaxDigits == <<"2", "1", "4", "7", "4", "8", "3", "6", "4", "7">>

RECURSIVE DigitsLeq(_, _)
\* a <= b for two digit strings of the same length
DigitsLeq(a, b) ==
    IF a = <<>> THEN TRUE
    ELSE IF DigitVal(Head(a)) < DigitVal(Head(b)) THEN TRUE
    ELSE IF DigitVal(Head(a)) > DigitVal(Head(b)) THEN FALSE
    ELSE DigitsLeq(Tail(a), Tail(b))

FitsCInt(n) ==
    \/ Len(n.digits) < Len(CIntMaxDigits)
    \/ Len(n.digits) = Len(CIntMaxDigits) /\ DigitsLeq(n.digits, CIntMaxDigits)

RECURSIVE DigitsValue(_, _)
DigitsValue(ds, acc) ==
    IF ds = <<>> THEN acc
    ELSE DigitsValue(Tail(ds), acc * 10 + DigitVal(Head(ds)))

\* the number an int that fits a C int stands for
IntValue(n) == IF n.neg THEN 0 - DigitsValue(n.digits, 0)
               ELSE DigitsValue(n.digits, 0)

\* lo <= n <= hi for small lo, hi
IntBetween(n, lo, hi) == FitsCInt(n) /\ lo <= IntValue(n) /\ IntValue(n) <= hi

-----------------------------------------------------------------------------
(* datetime.datetime(year, month, day), as CPython's _datetime builds it *)

IsLeapYear(y) == y % 4 = 0 /\ (y % 100 # 0 \/ y % 400 = 0)

DaysInMonth(y, m) ==
    CASE m = 2 -> IF IsLeapYear(y) THEN 29 ELSE 28
      [] m \in {4, 6, 9, 11} -> 30
      [] OTHER -> 31

\* "ok" when (y, m, d) is a date of the proleptic Gregorian calendar with a
\* year in 1..9999; "ValueError" when it is not; "OverflowError" when an
\* argument does not fit the C int the constructor parses it into.
datetime_new(y, m, d) ==
    IF ~FitsCInt(y) \/ ~FitsCInt(m) \/ ~FitsCInt(d) THEN "OverflowError"
    ELSE IF ~(1 <= IntValue(y) /\ IntValue(y) <= 9999) THEN "ValueError"
    ELSE IF ~(1 <= IntValue(m) /\ IntValue(m) <= 12) THEN "ValueError"
    ELSE IF ~(1 <= IntValue(d)
              /\ IntValue(d) <= DaysInMonth(IntValue(y), IntValue(m)))
         THEN "ValueError"
    ELSE "ok"

-----------------------------------------------------------------------------
(* date_utils.normalize_date_2iso *)

MsgNotStr == "Invalid date passed; must be a string."
MsgYear == "Invalid year passed; must be in YYYY, MM-YYYY or DD-MM-YYYY format; the year must be positive."
MsgFormat == "Invalid date passed; must be in YYYY, YYYY-MM or YYYY-MM-DD format."
MsgMonth == "Invalid month passed; must be between 1 and 12"
MsgDay == "Invalid day passed; must be between 1 and 31."
MsgInvalid == "Inputted date is invalid."
MsgIntLiteral == "invalid literal for int() with base 10"
MsgUnpack == "not enough values to unpack, or too many"
MsgRange == "year, month or day is out of range"
MsgCInt == "signed integer is greater than maximum"

\* PadYear that leaves the year as str() gave it
PadYear_Unpadded(year_str) == year_str

RECURSIVE PadYear(_)
\* while len(year_str) < 4: year_str = '0' + year_str
PadYear(year_str) ==
    IF Len(year_str) < 4 THEN PadYear(<<"0">> \o year_str) ELSE year_str

\* PadTwo without the padding
PadTwo_NoPadding(s) == s

\* if len(s) == 1: s = '0' + s
PadTwo(s) == IF Len(s) = 1 THEN <<"0">> \o s ELSE s

\* the final check of the assembled date (lines 302-310)
FinalCheck(normalized_date) ==
    LET parts == str_split(normalized_date, "-")
    IN  IF Len(parts) # 3 THEN Raised("ValueError", MsgUnpack, "")
        ELSE LET y == int(parts[1])
                 m == int(parts[2])
                 d == int(parts[3])
             IN  IF ~(y.ok /\ m.ok /\ d.ok)
                 THEN Raised("ValueError", MsgInvalid, MsgIntLiteral)
                 ELSE CASE datetime_new(y, m, d) = "ok" ->
                               Returned(PyStr(normalized_date))
                        [] datetime_new(y, m, d) = "ValueError" ->
                               Raised("ValueError", MsgInvalid, MsgRange)
                        [] OTHER -> Raised("OverflowError", MsgCInt, "")

\* Assemble with the month and the day in each other's place
Assemble_DayFirst(year_str, month_str, day_str) ==
    year_str \o <<"-">> \o day_str \o <<"-">> \o month_str

\* the assembled date before its final check (lines 286-300):
\* f'{year_str}-{month_str}-{day_str}', with '01' for a part not given
Assemble(year_str, month_str, day_str) ==
    year_str \o <<"-">> \o month_str \o <<"-">> \o day_str

normalize_date_2iso(d) ==
    IF ~isinstance_str(d) THEN Raised("ValueError", MsgNotStr, "")
    ELSE
    LET split_date == str_split(d.chars, "-")
        n == Len(split_date)
        year == int(split_date[1])
        year_str == PadYear(str(year))
        month == int(split_date[2])
        month_str == PadTwo(str(month))
        day == int(split_date[3])
        day_str == PadTwo(str(day))
    IN  IF ~year.ok THEN Raised("ValueError", MsgYear, MsgIntLiteral)
        ELSE IF n > 1 /\ ~month.ok
             THEN Raised("ValueError", MsgFormat, MsgIntLiteral)
        ELSE IF n > 1 /\ ~IntBetween(month, 1, 12)
             THEN Raised("ValueError", MsgMonth, "")
        ELSE IF n > 2 /\ ~day.ok
             THEN Raised("ValueError", MsgFormat, MsgIntLiteral)
        ELSE IF n > 2 /\ ~IntBetween(day, 1, 31)
             THEN Raised("ValueError", MsgDay, "")
        ELSE CASE n = 1 ->
                    FinalCheck(Assemble(year_str, <<"0", "1">>, <<"0", "1">>))
               [] n = 2 ->
                    FinalCheck(Assemble(year_str, month_str, <<"0", "1">>))
               [] n = 3 ->
                    FinalCheck(Assemble(year_str, month_str, day_str))
               [] OTHER -> Raised("ValueError", MsgFormat, "")

-----------------------------------------------------------------------------
(* Pub._prepare_filters.  The clause is kept as its sequence of SQL tokens  *)
(* (white space and line breaks dropped), the arguments as the list of      *)
(* values bound to its placeholders.                                        *)

MsgPublishers == "Invalid publishers filter; must be a (list of) string(s)."
MsgJournals == "Invalid journals filter; must be a (list of) string(s)."
MsgTypes == "Invalid publication type filter; must be a (list of) string(s)."
MsgMinReceived == "Invalid minimum received date."
MsgMaxReceived == "Invalid maximum received date."
MsgMinAccepted == "Invalid minimum accepted date."
MsgMaxAccepted == "Invalid maximum accepted date."
MsgMinPublished == "Invalid minimum published date."
MsgMaxPublished == "Invalid maximum published date."

\* appeer.general.utils.is_list_of_str: a str, or a list of str
is_list_of_str(v) ==
    \/ v.type = "str"
    \/ v.type = "list" /\ \A i \in 1..Len(v.items) : v.items[i].type = "str"

RECURSIVE QuestionMarks(_)
\* ", ".join(['?'] * n)
QuestionMarks(n) ==
    IF n = 0 THEN <<>>
    ELSE IF n = 1 THEN <<"?">>
    ELSE <<"?", ",">> \o QuestionMarks(n - 1)

\* the locals of _prepare_filters, and the exception raised so far
NoneRaised == [exc |-> "none", msg |-> "", cause |-> "", val |-> <<>>]

\* a start at which the opener is already the conjunction
FilterStart_And ==
    [add_2_query |-> <<>>, args_query |-> <<>>, where_or_and |-> "AND",
     raised |-> NoneRaised]

FilterStart ==
    [add_2_query |-> <<>>, args_query |-> <<>>, where_or_and |-> "WHERE",
     raised |-> NoneRaised]

\* the fragment a list criterion appends: {where_or_and} column IN (?, ...)
InFragment(where_or_and, column, n) ==
    <<where_or_and, column, "IN", "(">> \o QuestionMarks(n) \o <<")">>

\* BoundFragment with strict comparisons
BoundFragment_Strict(where_or_and, column, cmp) ==
    <<where_or_and, column, IF cmp = ">=" THEN ">" ELSE "<", "?">>

\* the fragment a date bound appends: {where_or_and} column >= ?
BoundFragment(where_or_and, column, cmp) == <<where_or_and, column, cmp, "?">>

\* ListFilter putting its arguments in front of those already there
ListFilter_ArgsFirst(st, kw, key, column, msg) ==
    IF st.raised.exc # "none" THEN st
    ELSE IF key \notin DOMAIN kw THEN st
    ELSE IF ~is_list_of_str(kw[key])
         THEN [st EXCEPT !.raised = Raised("ValueError", msg, "")]
    ELSE LET lst == IF isinstance_str(kw[key]) THEN <<kw[key]>>
                    ELSE kw[key].items
         IN  [st EXCEPT
                !.add_2_query = @ \o InFragment(st.where_or_and, column, Len(lst)),
                !.args_query = lst \o @,
                !.where_or_and = "AND"]

\* a list criterion's block (publishers 525-542, journals 544-561,
\* publication types 671-686); a missing key is the KeyError that is passed
ListFilter(st, kw, key, column, msg) ==
    IF st.raised.exc # "none" THEN st
    ELSE IF key \notin DOMAIN kw THEN st
    ELSE IF ~is_list_of_str(kw[key])
         THEN [st EXCEPT !.raised = Raised("ValueError", msg, "")]
    ELSE LET lst == IF isinstance_str(kw[key]) THEN <<kw[key]>>
                    ELSE kw[key].items
         IN  [st EXCEPT
                !.add_2_query = @ \o InFragment(st.where_or_and, column, Len(lst)),
                !.args_query = @ \o lst,
                !.where_or_and = "AND"]

\* DateFilter binding the bound as given, the normalized date forgotten
DateFilter_Unnormalized(st, kw, key, column, cmp, msg) ==
    IF st.raised.exc # "none" THEN st
    ELSE IF key \notin DOMAIN kw THEN st
    ELSE CHOOSE after \in
            {IF r.exc = "none"
             THEN [st EXCEPT
                     !.add_2_query = @ \o BoundFragment(st.where_or_and, column, cmp),
                     !.args_query = @ \o <<kw[key]>>,
                     !.where_or_and = "AND"]
             ELSE IF r.exc = "ValueError"
             THEN [st EXCEPT !.raised = Raised("ValueError", msg, r.msg)]
             ELSE [st EXCEPT !.raised = r] :
                r \in {normalize_date_2iso(kw[key])}} : TRUE

\* a date bound's block (563-669): a ValueError of normalize_date_2iso is
\* raised again under the criterion's name, any other exception passes
DateFilter(st, kw, key, column, cmp, msg) ==
    IF st.raised.exc # "none" THEN st
    ELSE IF key \notin DOMAIN kw THEN st
    ELSE CHOOSE after \in
            {IF r.exc = "none"
             THEN [st EXCEPT
                     !.add_2_query = @ \o BoundFragment(st.where_or_and, column, cmp),
                     !.args_query = @ \o <<r.val>>,
                     !.where_or_and = "AND"]
             ELSE IF r.exc = "ValueError"
             THEN [st EXCEPT !.raised = Raised("ValueError", msg, r.msg)]
             ELSE [st EXCEPT !.raised = r] :
                r \in {normalize_date_2iso(kw[key])}} : TRUE

\* the blocks in their order, each applied to what the block before it left
\* (a one-element set at every stage)
prepare_filters(kw) ==
    LET s1 == {ListFilter(FilterStart, kw, "normalized_publisher",
                          "normalized_publisher", MsgPublishers)}
        s2 == {ListFilter(st, kw, "normalized_journal",
                          "normalized_journal", MsgJournals) : st \in s1}
        s3 == {DateFilter(st, kw, "min_received",
                          "normalized_received", ">=", MsgMinReceived) : st \in s2}
        s4 == {DateFilter(st, kw, "max_received",
                          "normalized_received", "<=", MsgMaxReceived) : st \in s3}
        s5 == {DateFilter(st, kw, "min_accepted",
                          "normalized_accepted", ">=", MsgMinAccepted) : st \in s4}
        s6 == {DateFilter(st, kw, "max_accepted",
                          "normalized_accepted", "<=", MsgMaxAccepted) : st \in s5}
        s7 == {DateFilter(st, kw, "min_published",
                          "normalized_published", ">=", MsgMinPublished) : st \in s6}
        s8 == {DateFilter(st, kw, "max_published",
                          "normalized_published", "<=", MsgMaxPublished) : st \in s7}
        s9 == {ListFilter(st, kw, "publication_type",
                          "publication_type", MsgTypes) : st \in s8}
    IN  CHOOSE outcome \in
            {IF st.raised.exc # "none" THEN st.raised
             ELSE Returned(<<st.add_2_query, st.args_query>>) : st \in s9} : TRUE

-----------------------------------------------------------------------------
(* The query of Pub.filter_pjt: SELECT ... FROM pub {clause}, with the      *)
(* arguments bound to the placeholders from left to right.  A row is a      *)
(* record of Python values: a str is stored as TEXT, None as NULL.          *)

Columns ==
    {"doi", "normalized_publisher", "normalized_journal", "publication_type",
     "normalized_received", "normalized_accepted", "normalized_published",
     "title"}

Comparisons == {">=", "<=", ">", "<", "="}

\* code points of the characters compared
CharCode(c) ==
    CASE c = " " -> 32 [] c = "+" -> 43 [] c = "-" -> 45
      [] c \in Digit -> 48 + DigitVal(c)
      [] c = "_" -> 95 [] c = "a" -> 97 [] c = "b" -> 98
      [] c = "c" -> 99 [] c = "d" -> 100 [] c = "x" -> 120

RECURSIVE TextLeqFrom(_, _, _)
\* a <= b from the i-th character on, the characters before being equal
TextLeqFrom(a, b, i) ==
    IF i > Len(a) THEN TRUE
    ELSE IF i > Len(b) THEN FALSE
    ELSE IF a[i] = b[i] THEN TextLeqFrom(a, b, i + 1)
    ELSE CharCode(a[i]) < CharCode(b[i])

\* a <= b for TEXT values under the BINARY collation
TextLeq(a, b) == TextLeqFrom(a, b, 1)

RECURSIVE AfterPlaceholder(_, _)
\* the position of the ")" that closes a placeholder list, read from just
\* past one of its placeholders; 0 when the list is malformed
AfterPlaceholder(q, j) ==
    IF j > Len(q) THEN 0
    ELSE IF q[j] = ")" THEN j
    ELSE IF q[j] = "," /\ j + 1 <= Len(q) /\ q[j + 1] = "?"
         THEN AfterPlaceholder(q, j + 2)
    ELSE 0

\* the same, read from just past the "("
ListClose(q, j) ==
    IF j > Len(q) THEN 0
    ELSE IF q[j] = ")" THEN j
    ELSE IF q[j] = "?" THEN AfterPlaceholder(q, j + 1)
    ELSE 0

SyntaxError == [column |-> "", cmp |-> "syntax error", slots |-> 0]

RECURSIVE Conditions(_, _, _)
\* the conditions of a clause: WHERE cond {AND cond}, or nothing; each
\* with its column, its comparison and its number of placeholders
Conditions(q, i, lead) ==
    IF i > Len(q) THEN <<>>
    ELSE IF q[i] # lead \/ i + 3 > Len(q) \/ q[i + 1] \notin Columns
         THEN <<SyntaxError>>
    ELSE IF q[i + 2] = "IN" /\ q[i + 3] = "(" /\ ListClose(q, i + 4) # 0
         THEN LET close == ListClose(q, i + 4)
              IN  <<[column |-> q[i + 1], cmp |-> "IN",
                     slots |-> (close - (i + 4) + 1) \div 2]>>
                  \o Conditions(q, close + 1, "AND")
    ELSE IF q[i + 2] \in Comparisons /\ q[i + 3] = "?"
         THEN <<[column |-> q[i + 1], cmp |-> q[i + 2], slots |-> 1]>>
              \o Conditions(q, i + 4, "AND")
    ELSE <<SyntaxError>>

RECURSIVE SlotsBefore(_, _)
\* the number of placeholders left of the k-th condition
SlotsBefore(conds, k) ==
    IF k = 1 THEN 0 ELSE SlotsBefore(conds, k - 1) + conds[k - 1].slots

\* the arguments bound to the placeholders of the k-th condition
Operands(conds, args, k) ==
    SubSeq(args, SlotsBefore(conds, k) + 1,
           SlotsBefore(conds, k) + conds[k].slots)

\* what executing the query raises: nothing ("ok"), OperationalError for a
\* clause that is no SQL, ProgrammingError for a wrong number of bindings
SqlStatus(q, args) ==
    LET conds == Conditions(q, 1, "WHERE")
    IN  IF \E k \in 1..Len(conds) : conds[k] = SyntaxError
        THEN "OperationalError"
        ELSE IF SlotsBefore(conds, Len(conds) + 1) # Len(args)
        THEN "ProgrammingError"
        ELSE "ok"

RECURSIVE BindFrom(_, _, _)
BindFrom(conds, args, k) ==
    IF k > Len(conds) THEN <<>>
    ELSE <<[column |-> conds[k].column, cmp |-> conds[k].cmp,
            operands |-> Operands(conds, args, k)]>>
         \o BindFrom(conds, args, k + 1)

\* the conditions of a query with their arguments bound
BoundConditions(q, args) == BindFrom(Conditions(q, 1, "WHERE"), args, 1)

\* one condition on one row; a NULL on either side makes it not true
ConditionHolds(cond, row) ==
    LET x == row[cond.column]
        operands == cond.operands
    IN  /\ x.type = "str"
        /\ \A i \in 1..Len(operands) : cond.cmp # "IN" => operands[i].type = "str"
        /\ CASE cond.cmp = "IN" ->
                  \E i \in 1..Len(operands) : operands[i] = x
             [] cond.cmp = ">=" -> TextLeq(operands[1].chars, x.chars)
             [] cond.cmp = "<=" -> TextLeq(x.chars, operands[1].chars)
             [] cond.cmp = ">" -> ~TextLeq(x.chars, operands[1].chars)
             [] cond.cmp = "<" -> ~TextLeq(operands[1].chars, x.chars)
             [] cond.cmp = "=" -> operands[1] = x

\* whether a row satisfies all the conditions, AND being the only connective
RowSatisfies(bound, row) ==
    \A k \in 1..Len(bound) : ConditionHolds(bound[k], row)

\* whether the query selects the row (the query being one that executes)
RowSelected(q, args, row) == RowSatisfies(BoundConditions(q, args), row)

-----------------------------------------------------------------------------
(* Arguments of normalize_date_2iso: strings of up to MaxSegments           *)
(* hyphen-separated segments, and values that are not strings.              *)

MaxSegments == 4

YearSegments ==
    { <<"2", "0", "0", "0">>, <<"2", "0", "2", "3">>, <<"2", "0", "2", "4">>,
      <<"5">>, <<"0">>, <<"1", "0", "0", "0", "0">>,
      <<"2", "1", "4", "7", "4", "8", "3", "6", "4", "8">>,
      <<"+", "2", "0", "0", "0">>, <<" ", "2", "0", "0", "0">>,
      <<"2", "_", "0", "0", "0">>, <<"a", "b", "c", "d">>, <<>> }

MonthSegments ==
    { <<"1">>, <<"2">>, <<"0", "2">>, <<"3">>, <<"0", "3">>, <<"0", "6">>,
      <<"1", "2">>, <<"1", "3">>, <<"0">>, <<"x">>, <<>> }

DaySegments ==
    { <<"1">>, <<"0", "1">>, <<"5">>, <<"0", "5">>, <<"2", "8">>,
      <<"2", "9">>, <<"3", "0">>, <<"3", "1">>, <<"3", "2">>, <<"0">>,
      <<"x">>, <<>> }

ExtraSegments == { <<"0", "1">>, <<"x">> }

SegmentsAt(i) ==
    CASE i = 1 -> YearSegments
      [] i = 2 -> MonthSegments
      [] i = 3 -> DaySegments
      [] OTHER -> ExtraSegments

RECURSIVE SegmentLists(_)
SegmentLists(n) ==
    IF n = 0 THEN {<<>>}
    ELSE {Append(p, seg) : p \in SegmentLists(n - 1), seg \in SegmentsAt(n)}

RECURSIVE Join(_, _)
\* sep.join(parts)
Join(parts, sep) ==
    IF Len(parts) = 1 THEN parts[1]
    ELSE parts[1] \o <<sep>> \o Join(Tail(parts), sep)

DateStrings ==
    UNION {{Join(p, "-") : p \in SegmentLists(n)} : n \in 1..MaxSegments}

DateArguments ==
    {PyStr(cs) : cs \in DateStrings}
        \cup {PyInt(<<"2", "0", "0", "0">>), PyNone}

Pending == [exc |-> "pending", msg |-> "", cause |-> "", val |-> <<>>]

NoKwargs == <<>>

NoCall == [name |-> "none", overwrite |-> FALSE, args |-> NoKwargs]

-----------------------------------------------------------------------------
(* The date specification: normalize_date_2iso applied to an argument,      *)
(* then to its own result.                                                  *)

\* no table operation has been called
TableIdle ==
    /\ table = <<>>
    /\ before = <<>>
    /\ op = NoCall
    /\ ret = Pending
    /\ queries = <<>>

\* _prepare_filters has not been called
FilterIdle ==
    /\ kwargs = NoKwargs
    /\ compiled = Pending

\* get_d_M_y and normalize_d_M_y have not been called
TextIdle ==
    /\ entry = PyNone
    /\ found = Pending
    /\ fragment = PyNone
    /\ dMy = Pending

\* earliest_date and latest_date have not been called
ExtremesIdle ==
    /\ date_list = PyNone
    /\ earliest = Pending
    /\ latest = Pending

\* no PubAnalyzer has been constructed
AnalyzerIdle ==
    /\ filtered_pubs = PyNone
    /\ analyzer_filtered_pubs = PyNone
    /\ summary = Pending

\* no PubReSearcher has been constructed
ResearcherIdle ==
    /\ researcher_filtered_pubs = PyNone
    /\ search_performed = FALSE
    /\ report = Pending
    /\ has_returned = FALSE

InitDate ==
    /\ date \in DateArguments
    /\ normalized = Pending
    /\ renormalized = Pending
    /\ TableIdle
    /\ FilterIdle
    /\ TextIdle
    /\ ExtremesIdle
    /\ AnalyzerIdle
    /\ ResearcherIdle

Normalize ==
    /\ normalized = Pending
    /\ normalized' = normalize_date_2iso(date)
    /\ UNCHANGED <<date, renormalized>>
    /\ UNCHANGED <<tableVars, filterVars, textVars, extremeVars, analyzerVars, researcherVars>>

Renormalize ==
    /\ normalized.exc = "none"
    /\ renormalized = Pending
    /\ renormalized' = normalize_date_2iso(normalized.val)
    /\ UNCHANGED <<date, normalized>>
    /\ UNCHANGED <<tableVars, filterVars, textVars, extremeVars, analyzerVars, researcherVars>>

NextDate == Normalize \/ Renormalize

SpecDate == InitDate /\ [][NextDate]_vars

-----------------------------------------------------------------------------
(* Keyword arguments of _prepare_filters: at most MaxPresent of the nine    *)
(* criteria at a time, each valid or invalid, and all nine together.        *)

MaxPresent == 3

RSC == PyStr(<<"R", "S", "C">>)
ACS == PyStr(<<"A", "C", "S">>)
Nanoscale == PyStr(<<"N", "a", "n", "o">>)
Article == PyStr(<<"A", "r", "t">>)
Five == PyInt(<<"5">>)

D_2000 == PyStr(<<"2", "0", "0", "0">>)
D_2000_06 == PyStr(<<"2", "0", "0", "0", "-", "0", "6">>)
D_2000_3_5 == PyStr(<<"2", "0", "0", "0", "-", "3", "-", "5">>)
D_abcd == PyStr(<<"a", "b", "c", "d">>)
D_2023_02_30 == PyStr(<<"2", "0", "2", "3", "-", "0", "2", "-", "3", "0">>)
D_2000_13 == PyStr(<<"2", "0", "0", "0", "-", "1", "3">>)
D_2000_1_1_1 == PyStr(<<"2", "0", "0", "0", "-", "1", "-", "1", "-", "1">>)
D_2147483648 == PyStr(<<"2", "1", "4", "7", "4", "8", "3", "6", "4", "8">>)

\* the criteria in the order _prepare_filters compiles them
CompilationOrder ==
    <<"normalized_publisher", "normalized_journal",
      "min_received", "max_received", "min_accepted", "max_accepted",
      "min_published", "max_published", "publication_type">>

ListKeys == {"normalized_publisher", "normalized_journal", "publication_type"}

CriterionValues(key) ==
    CASE key = "normalized_publisher" ->
            {RSC, PyList(<<ACS>>), PyList(<<RSC, ACS>>), PyList(<<RSC, Five>>)}
      [] key = "normalized_journal" -> {PyList(<<Nanoscale>>), PyList(<<PyNone>>)}
      [] key = "publication_type" -> {Article, Five}
      [] key = "min_received" -> {D_2000, D_2000_3_5, D_abcd}
      [] key = "max_received" -> {D_2000_06, D_2000_3_5, D_2023_02_30}
      [] key = "min_accepted" -> {D_2000, D_2000_3_5, Five}
      [] key = "max_accepted" -> {D_2000_06, D_2000_3_5, D_2000_13}
      [] key = "min_published" -> {D_2000, D_2000_06, D_abcd, D_2147483648}
      [] key = "max_published" -> {D_2000_06, D_2000, D_2000_1_1_1}

\* kw with key = v added
WithKey(kw, key, v) ==
    [k \in DOMAIN kw \cup {key} |-> IF k = key THEN v ELSE kw[k]]

RECURSIVE KwargsFrom(_, _)
\* the keyword arguments made of at most n of the criteria from the i-th on
KwargsFrom(i, n) ==
    IF i > Len(CompilationOrder) THEN {NoKwargs}
    ELSE KwargsFrom(i + 1, n)
         \cup (IF n = 0 THEN {}
               ELSE {WithKey(kw, CompilationOrder[i], v) :
                        kw \in KwargsFrom(i + 1, n - 1),
                        v \in CriterionValues(CompilationOrder[i])})

\* all nine criteria, valid
AllCriteria ==
    [normalized_publisher |-> PyList(<<RSC, ACS>>),
     normalized_journal |-> PyList(<<Nanoscale>>),
     min_received |-> D_2000, max_received |-> D_2000_06,
     min_accepted |-> D_2000, max_accepted |-> D_2000_06,
     min_published |-> D_2000, max_published |-> D_2000_06,
     publication_type |-> Article]

\* all nine, one of them invalid
AllCriteriaOneInvalid ==
    {[AllCriteria EXCEPT ![key] = v] :
        key \in {"normalized_journal"}, v \in {PyList(<<PyNone>>)}}
    \cup {[AllCriteria EXCEPT !["max_accepted"] = D_2000_13],
          [AllCriteria EXCEPT !["publication_type"] = Five]}

FilterKwargs ==
    KwargsFrom(1, MaxPresent) \cup {AllCriteria} \cup AllCriteriaOneInvalid

-----------------------------------------------------------------------------
(* The filter specification: _prepare_filters applied to keyword arguments *)

\* normalize_date_2iso has not been called
DateIdle ==
    /\ date = PyNone
    /\ normalized = Pending
    /\ renormalized = Pending

InitFilter ==
    /\ kwargs \in FilterKwargs
    /\ compiled = Pending
    /\ TableIdle
    /\ DateIdle
    /\ TextIdle
    /\ ExtremesIdle
    /\ AnalyzerIdle
    /\ ResearcherIdle

Compile ==
    /\ compiled = Pending
    /\ compiled' = prepare_filters(kwargs)
    /\ UNCHANGED <<kwargs, tableVars, dateVars, textVars, extremeVars, analyzerVars, researcherVars>>

NextFilter == Compile

SpecFilter == InitFilter /\ [][NextFilter]_vars

-----------------------------------------------------------------------------
(* The ``pub`` table: CREATE TABLE pub(..., PRIMARY KEY(doi COLLATE NOCASE)) *)

UpperCase ==
    <<"A", "B", "C", "D", "E", "F", "G", "H", "I", "J", "K", "L", "M",
      "N", "O", "P", "Q", "R", "S", "T", "U", "V", "W", "X", "Y", "Z">>

LowerCase ==
    <<"a", "b", "c", "d", "e", "f", "g", "h", "i", "j", "k", "l", "m",
      "n", "o", "p", "q", "r", "s", "t", "u", "v", "w", "x", "y", "z">>

\* the NOCASE collation folds the 26 upper case letters of ASCII
Fold(c) ==
    IF \E i \in 1..Len(UpperCase) : UpperCase[i] = c
    THEN LowerCase[CHOOSE i \in 1..Len(UpperCase) : UpperCase[i] = c]
    ELSE c

\* a = b under NOCASE; a NULL equals nothing
NoCaseEqual(a, b) ==
    /\ a.type = "str"
    /\ b.type = "str"
    /\ Len(a.chars) = Len(b.chars)
    /\ \A i \in 1..Len(a.chars) : Fold(a.chars[i]) = Fold(b.chars[i])

\* a primary key compared with the BINARY collation
KeyConflict_Binary(t, row) ==
    \E i \in 1..Len(t) : t[i].doi = row.doi /\ row.doi.type = "str"

\* the row has the primary key of a stored row
KeyConflict(t, row) == \E i \in 1..Len(t) : NoCaseEqual(t[i].doi, row.doi)

\* INSERT INTO pub VALUES(...): the table with the row added, or
\* sqlite3.IntegrityError when the primary key is taken
Insert(t, row) ==
    IF KeyConflict(t, row)
    THEN [exc |-> "IntegrityError", table |-> t]
    ELSE [exc |-> "none", table |-> Append(t, row)]

\* a REPLACE that leaves the stored row where it is
Replace_KeepStored(t, row) == t

\* REPLACE INTO pub VALUES(...): the rows with the row's primary key are
\* deleted, then the row is added
Replace(t, row) ==
    Append(SelectSeq(t, LAMBDA r : ~NoCaseEqual(r.doi, row.doi)), row)

\* Pub.add_entry: the table afterwards and (duplicate, inserted)
add_entry(t, overwrite, kw) ==
    LET inserted == Insert(t, kw)
    IN  IF inserted.exc = "none"
        THEN [table |-> inserted.table, ret |-> Returned(<<FALSE, TRUE>>)]
        ELSE IF overwrite
        THEN [table |-> Replace(t, kw), ret |-> Returned(<<TRUE, TRUE>>)]
        ELSE [table |-> t, ret |-> Returned(<<TRUE, FALSE>>)]

MsgUpdate == "Directly updating entries in the \"pub\" table of the \"pub.db\" database is not permitted; to update an entry, run a commit job with overwrite=True instead."

\* an update_entry that writes the given metadata over the stored record
update_entry_Writing(t, kw) ==
    [table |-> [i \in 1..Len(t) |->
                    IF kw # NoKwargs /\ NoCaseEqual(t[i].doi, kw.doi)
                    THEN kw ELSE t[i]],
     ret |-> Returned(PyNone)]

\* Pub.update_entry
update_entry(t, kw) ==
    [table |-> t, ret |-> Raised("PermissionError", MsgUpdate, "")]

\* Table._search_table(doi=doi): the rows whose doi equals the given one
\* (the column itself has the BINARY collation)
search_table_doi(t, doi) == SelectSeq(t, LAMBDA r : r.doi = doi /\ doi.type = "str")

\* Pub.get_pub and Pub.pub_exists
pub_exists(t, doi) == search_table_doi(t, doi) # <<>>

\* a DELETE without its where clause
Delete_All(t, doi) == <<>>

\* DELETE FROM pub where doi = ?
Delete(t, doi) == SelectSeq(t, LAMBDA r : ~(r.doi = doi /\ doi.type = "str"))

\* Pub.delete_entry: the table afterwards and ``success``
delete_entry(t, kw) ==
    IF ~pub_exists(t, kw.doi)
    THEN [table |-> t, ret |-> Returned(FALSE)]
    ELSE [table |-> Delete(t, kw.doi),
          ret |-> Returned(~pub_exists(Delete(t, kw.doi), kw.doi))]

-----------------------------------------------------------------------------
(* get_unique_publishers, get_unique_journals, get_publisher_summary and    *)
(* get_journal_summary                                                      *)

\* the code point of a character of a stored text
Ordinal(c) ==
    IF \E i \in 1..Len(UpperCase) : UpperCase[i] = c
    THEN 64 + (CHOOSE i \in 1..Len(UpperCase) : UpperCase[i] = c)
    ELSE IF \E i \in 1..Len(LowerCase) : LowerCase[i] = c
    THEN 96 + (CHOOSE i \in 1..Len(LowerCase) : LowerCase[i] = c)
    ELSE IF c = "|" THEN 124
    ELSE CharCode(c)

RECURSIVE BinaryLess(_, _)
\* a < b under the BINARY collation
BinaryLess(a, b) ==
    IF b = <<>> THEN FALSE
    ELSE IF a = <<>> THEN TRUE
    ELSE IF Ordinal(Head(a)) # Ordinal(Head(b))
    THEN Ordinal(Head(a)) < Ordinal(Head(b))
    ELSE BinaryLess(Tail(a), Tail(b))

\* ORDER BY: a NULL comes before every text
SqlLess(a, b) ==
    \/ a.type = "NoneType" /\ b.type = "str"
    \/ a.type = "str" /\ b.type = "str" /\ BinaryLess(a.chars, b.chars)

RECURSIVE OrderBy(_)
\* the values of a set in ascending order
OrderBy(S) ==
    IF S = {} THEN <<>>
    ELSE LET least == CHOOSE v \in S : \A w \in S : ~SqlLess(w, v)
         IN  <<least>> \o OrderBy(S \ {least})

\* column = ? : a NULL on either side matches nothing
SqlEquals(a, b) == a.type = "str" /\ b.type = "str" /\ a = b

\* Python's ``x in list``
In(x, list) == \E i \in 1..Len(list) : list[i] = x

\* SELECT DISTINCT normalized_publisher FROM pub ORDER BY normalized_publisher
get_unique_publishers(t) ==
    OrderBy({t[i].normalized_publisher : i \in 1..Len(t)})

\* the rows WHERE normalized_publisher = ?
OfPublisher(t, publisher) ==
    SelectSeq(t, LAMBDA r : SqlEquals(r.normalized_publisher, publisher))

\* the non-NULL values of a column
NotNull(rows, column) ==
    {rows[i][column] : i \in {j \in 1..Len(rows) : rows[j][column].type = "str"}}

\* MIN(column): NULL when no row has a value
SqlMin(rows, column) ==
    IF NotNull(rows, column) = {} THEN PyNone
    ELSE CHOOSE v \in NotNull(rows, column) :
            \A w \in NotNull(rows, column) : ~SqlLess(w, v)

\* MAX(column): NULL when no row has a value
SqlMax(rows, column) ==
    IF NotNull(rows, column) = {} THEN PyNone
    ELSE CHOOSE v \in NotNull(rows, column) :
            \A w \in NotNull(rows, column) : ~SqlLess(v, w)

\* COUNT(column): the rows whose column is not NULL
SqlCount(rows, column) ==
    Cardinality({j \in 1..Len(rows) : rows[j][column].type = "str"})

RECURSIVE DistinctFrom(_, _)
\* the values of a sequence, each at the place it first appears
DistinctFrom(values, seen) ==
    IF values = <<>> THEN <<>>
    ELSE IF Head(values) \in seen THEN DistinctFrom(Tail(values), seen)
    ELSE <<Head(values)>> \o
         DistinctFrom(Tail(values), seen \cup {Head(values)})

\* GROUP_CONCAT(DISTINCT publication_type||'|'): NULL when no row has a
\* publication type
GroupConcatTypes(rows) ==
    LET typed == SelectSeq(rows, LAMBDA r : r.publication_type.type = "str")
        terms == DistinctFrom([i \in 1..Len(typed) |->
                                  typed[i].publication_type.chars \o <<"|">>],
                              {})
    IN  IF terms = <<>> THEN PyNone ELSE PyStr(Join(terms, ","))

\* JournalSummary._make(row): name, count, publication_types, min_received,
\* max_received, min_accepted, max_accepted, min_published, max_published
JournalSummary(row) == [type |-> "JournalSummary", chars |-> <<>>, items |-> row]

\* the row the aggregate functions give for the rows of one journal
Aggregate(name, rows) ==
    JournalSummary(<<name,
                     PyInt(ZeroPadded(SqlCount(rows, "normalized_journal"), 1)),
                     GroupConcatTypes(rows),
                     SqlMin(rows, "normalized_received"),
                     SqlMax(rows, "normalized_received"),
                     SqlMin(rows, "normalized_accepted"),
                     SqlMax(rows, "normalized_accepted"),
                     SqlMin(rows, "normalized_published"),
                     SqlMax(rows, "normalized_published")>>)

\* the aggregate query of get_publisher_summary: one row for each journal
\* of the publisher's rows, the rows without a journal being one group
GroupByJournal(rows) ==
    LET names == OrderBy({rows[i].normalized_journal : i \in 1..Len(rows)})
    IN  [i \in 1..Len(names) |->
            Aggregate(names[i],
                      SelectSeq(rows,
                                LAMBDA r : r.normalized_journal = names[i]))]

\* the aggregate query of get_journal_summary: always one row
JournalRow(rows) ==
    Aggregate(IF rows = <<>> THEN PyNone ELSE rows[1].normalized_journal, rows)

Q_publishers == "SELECT DISTINCT normalized_publisher"
Q_journals == "SELECT DISTINCT normalized_journal"
Q_aggregate == "SELECT normalized_journal, COUNT(normalized_journal), ..."

\* no existence check: whatever is asked for is taken to be stored
Exists_Always(x, list) == TRUE

\* ``if x not in list: return None`` is passed
Exists(x, list) == In(x, list)

\* Pub.get_unique_journals: None when the publisher is not stored
get_unique_journals(t, publisher) ==
    IF ~Exists(publisher, get_unique_publishers(t)) THEN PyNone
    ELSE PyList(OrderBy({OfPublisher(t, publisher)[i].normalized_journal :
                            i \in 1..Len(OfPublisher(t, publisher))}))

\* Pub.get_publisher_summary: the value returned and the queries executed
get_publisher_summary(t, publisher) ==
    IF ~Exists(publisher, get_unique_publishers(t))
    THEN [ret |-> Returned(PyNone), queries |-> <<Q_publishers>>]
    ELSE [ret |-> Returned(PyList(GroupByJournal(OfPublisher(t, publisher)))),
          queries |-> <<Q_publishers, Q_aggregate>>]

\* Pub.get_journal_summary: the value returned and the queries executed
get_journal_summary(t, publisher, journal) ==
    IF ~Exists(publisher, get_unique_publishers(t))
    THEN [ret |-> Returned(PyNone), queries |-> <<Q_publishers>>]
    ELSE IF ~Exists(journal, get_unique_journals(t, publisher).items)
    THEN [ret |-> Returned(PyNone),
          queries |-> <<Q_publishers, Q_publishers, Q_journals>>]
    ELSE [ret |-> Returned(JournalRow(
                      SelectSeq(OfPublisher(t, publisher),
                                LAMBDA r : SqlEquals(r.normalized_journal,
                                                     journal)))),
          queries |-> <<Q_publishers, Q_publishers, Q_journals, Q_aggregate>>]

-----------------------------------------------------------------------------
(* The entries given to the table operations *)

DOIs ==
    {PyStr(<<"1", "0", "/", "a">>), PyStr(<<"1", "0", "/", "A">>),
     PyStr(<<"1", "0", "/", "b">>)}

Entry(doi, publisher, journal, type, received, accepted, published, title) ==
    [doi |-> doi, normalized_publisher |-> publisher,
     normalized_journal |-> journal, publication_type |-> type,
     normalized_received |-> received, normalized_accepted |-> accepted,
     normalized_published |-> published, title |-> title]

\* the metadata of an entry, but for its DOI
Metadata ==
    {<<RSC, Nanoscale, Article, PyStr(<<"2", "0", "0", "0", "-", "0", "1", "-", "0", "1">>),
       PyStr(<<"2", "0", "0", "0", "-", "0", "3", "-", "0", "5">>),
       PyStr(<<"2", "0", "0", "0", "-", "0", "6", "-", "0", "1">>), PyStr(<<"t", "1">>)>>,
     <<ACS, Nanoscale, PyNone, PyNone, PyNone,
       PyStr(<<"2", "0", "0", "0", "-", "0", "6", "-", "1", "5">>), PyStr(<<"t", "2">>)>>,
     <<RSC, PyNone, Article, PyStr(<<"1", "9", "9", "9", "-", "1", "2", "-", "3", "1">>),
       PyNone, PyNone, PyStr(<<"t", "3">>)>>,
     <<PyNone, Nanoscale, PyNone, PyNone, PyNone, PyNone, PyStr(<<"t", "4">>)>>}

Entries ==
    {Entry(doi, m[1], m[2], m[3], m[4], m[5], m[6], m[7]) :
        doi \in DOIs, m \in Metadata}

\* the publishers and journals summaries are asked for
SummaryPublishers == {RSC, ACS, PyStr(<<"r", "s", "c">>), PyNone}

SummaryJournals == {Nanoscale, PyStr(<<"N", "A", "N", "O">>), PyNone}

-----------------------------------------------------------------------------
(* The table specification: any sequence of add_entry, update_entry,        *)
(* delete_entry, get_publisher_summary and get_journal_summary calls on a   *)
(* table that starts empty.                                                 *)

Init ==
    /\ table = <<>>
    /\ before = <<>>
    /\ op = NoCall
    /\ ret = Pending
    /\ queries = <<>>
    /\ DateIdle
    /\ FilterIdle
    /\ TextIdle
    /\ ExtremesIdle
    /\ AnalyzerIdle
    /\ ResearcherIdle

AddEntry ==
    \E overwrite \in BOOLEAN, kw \in Entries :
        /\ op' = [name |-> "add_entry", overwrite |-> overwrite, args |-> kw]
        /\ before' = table
        /\ table' = add_entry(table, overwrite, kw).table
        /\ ret' = add_entry(table, overwrite, kw).ret
        /\ queries' = <<>>
        /\ UNCHANGED <<dateVars, filterVars, textVars, extremeVars, analyzerVars, researcherVars>>

UpdateEntry ==
    \E kw \in Entries \cup {NoKwargs} :
        /\ op' = [name |-> "update_entry", overwrite |-> FALSE, args |-> kw]
        /\ before' = table
        /\ table' = update_entry(table, kw).table
        /\ ret' = update_entry(table, kw).ret
        /\ queries' = <<>>
        /\ UNCHANGED <<dateVars, filterVars, textVars, extremeVars, analyzerVars, researcherVars>>

DeleteEntry ==
    \E doi \in DOIs :
        /\ op' = [name |-> "delete_entry", overwrite |-> FALSE,
                  args |-> [doi |-> doi]]
        /\ before' = table
        /\ table' = delete_entry(table, [doi |-> doi]).table
        /\ ret' = delete_entry(table, [doi |-> doi]).ret
        /\ queries' = <<>>
        /\ UNCHANGED <<dateVars, filterVars, textVars, extremeVars, analyzerVars, researcherVars>>

GetPublisherSummary ==
    \E publisher \in SummaryPublishers :
        /\ op' = [name |-> "get_publisher_summary", overwrite |-> FALSE,
                  args |-> [publisher |-> publisher]]
        /\ before' = table
        /\ table' = table
        /\ \E called \in {get_publisher_summary(table, publisher)} :
              /\ ret' = called.ret
              /\ queries' = called.queries
        /\ UNCHANGED <<dateVars, filterVars, textVars, extremeVars, analyzerVars, researcherVars>>

GetJournalSummary ==
    \E publisher \in SummaryPublishers, journal \in SummaryJournals :
        /\ op' = [name |-> "get_journal_summary", overwrite |-> FALSE,
                  args |-> [publisher |-> publisher, journal |-> journal]]
        /\ before' = table
        /\ table' = table
        /\ \E called \in {get_journal_summary(table, publisher, journal)} :
              /\ ret' = called.ret
              /\ queries' = called.queries
        /\ UNCHANGED <<dateVars, filterVars, textVars, extremeVars, analyzerVars, researcherVars>>

Next ==
    \/ AddEntry
    \/ UpdateEntry
    \/ DeleteEntry
    \/ GetPublisherSummary
    \/ GetJournalSummary

Spec == Init /\ [][Next]_vars

-----------------------------------------------------------------------------
(* date_utils.get_d_M_y and normalize_d_M_y.  Two characters outside ASCII *)
(* are in the alphabet, each written as a one-character string of its own: *)
(* U+017F (long s) and U+0131 (dotless i), which re.IGNORECASE matches     *)
(* against "s" and "i".                                                     *)

LongS == "U+017F"
DotlessI == "U+0131"

PyBytes(cs) == [type |-> "bytes", chars |-> cs, items |-> <<>>]

IsUpper(c) == \E i \in 1..Len(UpperCase) : UpperCase[i] = c
IsLower(c) == \E i \in 1..Len(LowerCase) : LowerCase[i] = c

\* \w of a str pattern: a letter, a digit or the underscore
IsWord(c) == c \in Digit \/ IsUpper(c) \/ IsLower(c) \/ c \in {"_", LongS, DotlessI}

\* str.lower and str.upper of one character
lower(c) == Fold(c)
upper(c) ==
    IF IsLower(c) THEN UpperCase[CHOOSE i \in 1..Len(LowerCase) : LowerCase[i] = c]
    ELSE IF c = LongS THEN "S"
    ELSE IF c = DotlessI THEN "I"
    ELSE c

\* str.capitalize: the first character in upper case, the rest in lower case
capitalize(s) ==
    [i \in 1..Len(s) |-> IF i = 1 THEN upper(s[i]) ELSE lower(s[i])]

\* the character c matches the pattern character p under re.IGNORECASE
MatchesIgnoreCase(c, p) ==
    \/ Fold(c) = Fold(p)
    \/ c = LongS /\ Fold(p) = "s"
    \/ c = DotlessI /\ Fold(p) = "i"

\* the string t matches the pattern word w under re.IGNORECASE
WordMatches(t, w) ==
    /\ Len(t) = Len(w)
    /\ \A i \in 1..Len(w) : MatchesIgnoreCase(t[i], w[i])

\* _M_map: the month names and their numbers
M_map ==
    <<<<<<"J", "a", "n", "u", "a", "r", "y">>, <<"0", "1">>>>,
      <<<<"F", "e", "b", "r", "u", "a", "r", "y">>, <<"0", "2">>>>,
      <<<<"M", "a", "r", "c", "h">>, <<"0", "3">>>>,
      <<<<"A", "p", "r", "i", "l">>, <<"0", "4">>>>,
      <<<<"M", "a", "y">>, <<"0", "5">>>>,
      <<<<"J", "u", "n", "e">>, <<"0", "6">>>>,
      <<<<"J", "u", "l", "y">>, <<"0", "7">>>>,
      <<<<"A", "u", "g", "u", "s", "t">>, <<"0", "8">>>>,
      <<<<"S", "e", "p", "t", "e", "m", "b", "e", "r">>, <<"0", "9">>>>,
      <<<<"O", "c", "t", "o", "b", "e", "r">>, <<"1", "0">>>>,
      <<<<"N", "o", "v", "e", "m", "b", "e", "r">>, <<"1", "1">>>>,
      <<<<"D", "e", "c", "e", "m", "b", "e", "r">>, <<"1", "2">>>>,
      <<<<"J", "a", "n">>, <<"0", "1">>>>,
      <<<<"F", "e", "b">>, <<"0", "2">>>>,
      <<<<"M", "a", "r">>, <<"0", "3">>>>,
      <<<<"A", "p", "r">>, <<"0", "4">>>>,
      <<<<"J", "u", "n">>, <<"0", "6">>>>,
      <<<<"J", "u", "l">>, <<"0", "7">>>>,
      <<<<"A", "u", "g">>, <<"0", "8">>>>,
      <<<<"S", "e", "p">>, <<"0", "9">>>>,
      <<<<"O", "c", "t">>, <<"1", "0">>>>,
      <<<<"N", "o", "v">>, <<"1", "1">>>>,
      <<<<"D", "e", "c">>, <<"1", "2">>>>>>

M_names == {M_map[i][1] : i \in 1..Len(M_map)}

\* _M_map()[name], or KeyError
M_lookup(name) ==
    IF name \in M_names
    THEN [exc |-> "none",
          val |-> M_map[CHOOSE i \in 1..Len(M_map) : M_map[i][1] = name][2]]
    ELSE [exc |-> "KeyError", val |-> <<>>]

\* (0?[1-9]|1[0-9]|2[0-9]|3[0-1])
D_digits(t) ==
    \/ Len(t) = 1 /\ t[1] \in Digit \ {"0"}
    \/ Len(t) = 2 /\ t[1] = "0" /\ t[2] \in Digit \ {"0"}
    \/ Len(t) = 2 /\ t[1] \in {"1", "2"} /\ t[2] \in Digit
    \/ Len(t) = 2 /\ t[1] = "3" /\ t[2] \in {"0", "1"}

\* (st|nd|rd|th)?
D_suffix(t) ==
    \/ t = <<>>
    \/ \E w \in {<<"s", "t">>, <<"n", "d">>, <<"r", "d">>, <<"t", "h">>} :
          WordMatches(t, w)

\* _d_regex matches the whole of t
D_matches(t) ==
    \E k \in 1..Len(t) :
        D_digits(SubSeq(t, 1, k)) /\ D_suffix(SubSeq(t, k + 1, Len(t)))

\* _M_regex matches the whole of t
M_matches(t) == \E w \in M_names : WordMatches(t, w)

\* [0-9]{4}
Y_matches(t) == Len(t) = 4 /\ \A i \in 1..4 : t[i] \in Digit

\* the index of the first sep at or after i, Len(s) + 1 when there is none
RECURSIVE IndexFrom(_, _, _)
IndexFrom(s, sep, i) ==
    IF i > Len(s) \/ s[i] = sep THEN i ELSE IndexFrom(s, sep, i + 1)

\* a \b that holds everywhere
Boundary_Anywhere(s, i) == TRUE

\* \b between s[i - 1] and s[i]
Boundary(s, i) ==
    (i > 1 /\ IsWord(s[i - 1])) # (i <= Len(s) /\ IsWord(s[i]))

\* where a match of rf'{d} {M} {y}' that starts at i ends (the index after
\* it), 0 when there is none.  The pattern has its spaces where the text
\* has them, so the day is the text to the first space, the month the text
\* to the second and the year the four characters after it.
MatchEnd(s, i) ==
    LET sp1 == IndexFrom(s, " ", i)
        sp2 == IndexFrom(s, " ", sp1 + 1)
    IN  IF /\ sp2 + 4 <= Len(s)
           /\ Boundary(s, i)
           /\ D_matches(SubSeq(s, i, sp1 - 1))
           /\ M_matches(SubSeq(s, sp1 + 1, sp2 - 1))
           /\ Y_matches(SubSeq(s, sp2 + 1, sp2 + 4))
           /\ Boundary(s, sp2 + 5)
        THEN sp2 + 5
        ELSE 0

\* re.finditer: the matches from left to right, none overlapping another
RECURSIVE finditer(_, _)
finditer(s, i) ==
    IF i > Len(s) THEN <<>>
    ELSE IF MatchEnd(s, i) = 0 THEN finditer(s, i + 1)
    ELSE <<PyStr(SubSeq(s, i, MatchEnd(s, i) - 1))>>
             \o finditer(s, MatchEnd(s, i))

get_d_M_y(e) ==
    IF ~isinstance_str(e) THEN Returned(PyNone)
    ELSE IF finditer(e.chars, 1) = <<>> THEN Returned(PyNone)
    ELSE Returned(PyList(finditer(e.chars, 1)))

\* the end of the run of digits that starts at i
RECURSIVE RunEnd(_, _)
RunEnd(d, i) ==
    IF i < Len(d) /\ d[i + 1] \in Digit THEN RunEnd(d, i + 1) ELSE i

\* re.findall(r'\b\d+', d): the first run, or IndexError
FirstDigitRun(d) ==
    LET starts == {i \in 1..Len(d) : d[i] \in Digit /\ Boundary(d, i)}
    IN  IF starts = {} THEN [exc |-> "IndexError", val |-> <<>>]
        ELSE LET i == CHOOSE i \in starts : \A j \in starts : i <= j
             IN  [exc |-> "none", val |-> SubSeq(d, i, RunEnd(d, i))]

\* datetime.date.fromisoformat('-'.join([y, month, day])) for a month of
\* _M_map: the string must read YYYY-MM-DD and name a date
fromisoformat(y, month, day) ==
    IF /\ Y_matches(y)
       /\ Len(day) = 2
       /\ \A i \in 1..2 : day[i] \in Digit
       /\ datetime_new(int(y), int(month), int(day)) = "ok"
    THEN "ok"
    ELSE "ValueError"

\* dMY_date.split(' '): a str is split, bytes refuse a str separator, any
\* other value has no split
split_space(v) ==
    CASE v.type = "str" -> [exc |-> "none", val |-> str_split(v.chars, " ")]
      [] v.type = "bytes" -> [exc |-> "TypeError", val |-> <<>>]
      [] OTHER -> [exc |-> "AttributeError", val |-> <<>>]

MsgBytes == "a bytes-like object is required, not 'str'"

\* if len(day) == 1: day = '0' + day
PadDay(day) == IF Len(day) = 1 THEN <<"0">> \o day ELSE day

\* lines 201-208: the date put together, checked and returned
Normalized(y, month, day) ==
    IF fromisoformat(y, month, day) = "ok"
    THEN Returned(PyStr(y \o <<"-">> \o month \o <<"-">> \o day))
    ELSE Returned(PyNone)

normalize_d_M_y(dMY_date) ==
    LET parts == split_space(dMY_date)
    IN  IF parts.exc = "TypeError" THEN Raised("TypeError", MsgBytes, "")
        ELSE IF parts.exc = "AttributeError" \/ Len(parts.val) # 3
             THEN Returned(PyNone)
        ELSE LET d == parts.val[1]
                 M == parts.val[2]
                 y == parts.val[3]
                 found_day == FirstDigitRun(d)
                 day == PadDay(found_day.val)
                 month == M_lookup(capitalize(M))
             IN  IF found_day.exc = "IndexError" THEN Returned(PyNone)
                 ELSE IF month.exc = "KeyError" THEN Returned(PyNone)
                 ELSE Normalized(y, month.val, day)

-----------------------------------------------------------------------------
(* The texts given to get_d_M_y and normalize_d_M_y *)

DayTokens ==
    { <<"1">>, <<"0", "1">>, <<"9">>, <<"0", "5">>, <<"2", "5">>, <<"2", "9">>,
      <<"3", "0">>, <<"3", "1">>, <<"1", "s", "t">>, <<"2", "n", "d">>,
      <<"3", "r", "d">>, <<"1", "8", "t", "h">>, <<"1", "S", "T">>,
      <<"1", LongS, "t">>, <<"0">>, <<"3", "2">>, <<"1", "x">>, <<"s", "t">> }

MonthTokens ==
    { <<"F", "e", "b">>, <<"F", "e", "b", "r", "u", "a", "r", "y">>,
      <<"f", "e", "b">>, <<"F", "E", "B">>, <<"d", "e", "c">>,
      <<"D", "e", "c">>, <<"O", "c", "t", "o", "b", "e", "r">>,
      <<"J", "u", "n">>, <<"M", "a", "y">>, <<"m", "A", "Y">>,
      <<"A", "u", "g", "u", "s", "t">>, <<"A", "u", "g", "u", LongS, "t">>,
      <<LongS, "e", "p">>, <<"A", "p", "r", DotlessI, "l">>,
      <<"S", "e", "p", "t">>, <<"F", "o", "o">> }

YearTokens ==
    { <<"2", "0", "1", "0">>, <<"2", "0", "2", "3">>, <<"2", "0", "2", "4">>,
      <<"2", "0", "6", "0">>, <<"1", "9", "9", "0">>, <<"9", "9", "9", "9">>,
      <<"0", "0", "0", "0">>, <<"2", "0", "1">>, <<"2", "0", "1", "0", "0">> }

\* "d M y"
Fragment(d, M, y) == d \o <<" ">> \o M \o <<" ">> \o y

Fragments ==
    {Fragment(d, M, y) : d \in DayTokens, M \in MonthTokens, y \in YearTokens}

\* the fragments set in longer texts
SetFragments ==
    { Fragment(<<"1", "8", "t", "h">>, <<"O", "c", "t", "o", "b", "e", "r">>,
               <<"2", "0", "2", "3">>),
      Fragment(<<"0", "5">>, <<"J", "u", "n">>, <<"2", "0", "6", "0">>),
      Fragment(<<"3", "1">>, <<"F", "e", "b", "r", "u", "a", "r", "y">>,
               <<"9", "9", "9", "9">>),
      Fragment(<<"1">>, <<"F", "o", "o">>, <<"2", "0", "1", "0">>) }

Received == <<"R", "e", "c", "e", "i", "v", "e", "d", " ">>
Accepted == <<";", " ", "A", "c", "c", "e", "p", "t", "e", "d", " ">>

Before == { <<>>, <<"x">>, <<"1", " ">>, <<"3", ".">>, <<"(">>, Received }
After == { <<>>, <<"x">>, <<"1">>, <<".">>, <<" ", "a", "n", "d">> }

Texts ==
    Fragments
        \cup {b \o f \o a : b \in Before, f \in SetFragments, a \in After}
        \cup {Received \o f \o Accepted \o g : f, g \in SetFragments}
        \cup {f \o g : f, g \in SetFragments}
        \cup { <<>>, <<"n", "o", " ", "d", "a", "t", "e">>,
               <<"1", " ", " ", "F", "e", "b", " ", "2", "0", "1", "0">>,
               <<"1", " ", "F", "e", "b">>,
               <<"a", "-", "1", " ", "F", "e", "b", " ", "2", "0", "1", "0">> }

TextArguments ==
    {PyStr(t) : t \in Texts}
        \cup { PyNone, PyInt(<<"5">>),
               PyList(<<PyStr(<<"1", " ", "F", "e", "b", " ", "2", "0", "1", "0">>)>>),
               PyBytes(<<"1", " ", "F", "e", "b", " ", "2", "0", "1", "0">>) }

-----------------------------------------------------------------------------
(* The text specification: get_d_M_y applied to a text and normalize_d_M_y  *)
(* to what it found, or normalize_d_M_y applied to the text itself.         *)

InitText ==
    /\ entry \in TextArguments
    /\ found = Pending
    /\ fragment = PyNone
    /\ dMy = Pending
    /\ TableIdle
    /\ DateIdle
    /\ FilterIdle
    /\ ExtremesIdle
    /\ AnalyzerIdle
    /\ ResearcherIdle

Recognize ==
    /\ found = Pending
    /\ found' = get_d_M_y(entry)
    /\ UNCHANGED <<entry, fragment, dMy>>
    /\ UNCHANGED <<tableVars, dateVars, filterVars, extremeVars, analyzerVars, researcherVars>>

NormalizeFound ==
    /\ found.exc = "none"
    /\ found.val # PyNone
    /\ dMy = Pending
    /\ \E i \in 1..Len(found.val.items) :
          /\ fragment' = found.val.items[i]
          /\ dMy' = normalize_d_M_y(found.val.items[i])
    /\ UNCHANGED <<entry, found>>
    /\ UNCHANGED <<tableVars, dateVars, filterVars, extremeVars, analyzerVars, researcherVars>>

NormalizeGiven ==
    /\ found = Pending
    /\ dMy = Pending
    /\ fragment' = entry
    /\ dMy' = normalize_d_M_y(entry)
    /\ UNCHANGED <<entry, found>>
    /\ UNCHANGED <<tableVars, dateVars, filterVars, extremeVars, analyzerVars, researcherVars>>

NextText == Recognize \/ NormalizeFound \/ NormalizeGiven

SpecText == InitText /\ [][NextText]_vars

(* earliest_date and latest_date *)

MsgDateList == "date_list must be a list of strings"
MsgIsoformat == "Invalid isoformat string"
MsgEmptyMin == "min() arg is an empty sequence"
MsgEmptyMax == "max() arg is an empty sequence"

NoDate == <<0, 0, 0>>

\* datetime.date.fromisoformat(date_string) for a str that names no ISO
\* week: YYYY-MM-DD or YYYYMMDD, naming a date with a year in 1..9999
date_fromisoformat(cs) ==
    LET extended == Len(cs) = 10 /\ cs[5] = "-" /\ cs[8] = "-"
        digits == IF extended
                  THEN SubSeq(cs, 1, 4) \o SubSeq(cs, 6, 7) \o SubSeq(cs, 9, 10)
                  ELSE cs
        y == SubSeq(digits, 1, 4)
        m == SubSeq(digits, 5, 6)
        d == SubSeq(digits, 7, 8)
    IN  IF Len(digits) # 8 \/ \E i \in 1..Len(digits) : digits[i] \notin Digit
        THEN [exc |-> "ValueError", msg |-> MsgIsoformat, date |-> NoDate]
        ELSE IF datetime_new(int(y), int(m), int(d)) # "ok"
        THEN [exc |-> "ValueError", msg |-> MsgRange, date |-> NoDate]
        ELSE [exc |-> "none", msg |-> "",
              date |-> <<DigitsValue(y, 0), DigitsValue(m, 0),
                         DigitsValue(d, 0)>>]

\* datetime.date.isoformat(d): '%04d-%02d-%02d'
date_isoformat(d) ==
    ZeroPadded(d[1], 4) \o <<"-">> \o ZeroPadded(d[2], 2) \o <<"-">> \o
    ZeroPadded(d[3], 2)

\* a < b for two dates
DateBefore(a, b) ==
    \/ a[1] < b[1]
    \/ a[1] = b[1] /\ a[2] < b[2]
    \/ a[1] = b[1] /\ a[2] = b[2] /\ a[3] < b[3]

\* the first date of a non-empty sequence of dates
min_date_First(dates) == dates[1]

\* min(dates) for a non-empty sequence of dates
min_date(dates) ==
    CHOOSE d \in {dates[i] : i \in 1..Len(dates)} :
        \A i \in 1..Len(dates) : ~DateBefore(dates[i], d)

\* max(dates) for a non-empty sequence of dates
max_date(dates) ==
    CHOOSE d \in {dates[i] : i \in 1..Len(dates)} :
        \A i \in 1..Len(dates) : ~DateBefore(d, dates[i])

\* what ``for date in date_list`` yields: the items of a list, the
\* characters of a str
Iterated(a_list) ==
    IF a_list.type = "str"
    THEN [i \in 1..Len(a_list.chars) |-> <<a_list.chars[i]>>]
    ELSE [i \in 1..Len(a_list.items) |-> a_list.items[i].chars]

\* the dates the generator yields up to the first string that is not one
ParsedDates(a_list) ==
    LET parsed == [i \in 1..Len(Iterated(a_list)) |->
                      date_fromisoformat(Iterated(a_list)[i])]
        failed == {i \in 1..Len(parsed) : parsed[i].exc # "none"}
    IN  IF failed = {}
        THEN [exc |-> "none", msg |-> "",
              dates |-> [i \in 1..Len(parsed) |-> parsed[i].date]]
        ELSE [exc |-> "ValueError",
              msg |-> parsed[CHOOSE i \in failed :
                                \A j \in failed : i <= j].msg,
              dates |-> <<>>]

\* a_list is the parameter date_list
earliest_date(a_list) ==
    IF ~is_list_of_str(a_list)
    THEN Raised("ValueError", MsgDateList, "")
    ELSE LET parsed == ParsedDates(a_list)
         IN  IF parsed.exc # "none" THEN Raised("ValueError", parsed.msg, "")
             ELSE IF parsed.dates = <<>>
                  THEN Raised("ValueError", MsgEmptyMin, "")
             ELSE Returned(PyStr(date_isoformat(min_date(parsed.dates))))

latest_date(a_list) ==
    IF ~is_list_of_str(a_list)
    THEN Raised("ValueError", MsgDateList, "")
    ELSE LET parsed == ParsedDates(a_list)
         IN  IF parsed.exc # "none" THEN Raised("ValueError", parsed.msg, "")
             ELSE IF parsed.dates = <<>>
                  THEN Raised("ValueError", MsgEmptyMax, "")
             ELSE Returned(PyStr(date_isoformat(max_date(parsed.dates))))

-----------------------------------------------------------------------------
(* The lists given to earliest_date and latest_date *)

MaxDates == 3

Chars_2000_01_01 == <<"2", "0", "0", "0", "-", "0", "1", "-", "0", "1">>
Chars_2000_02_29 == <<"2", "0", "0", "0", "-", "0", "2", "-", "2", "9">>
Chars_2000_10_09 == <<"2", "0", "0", "0", "-", "1", "0", "-", "0", "9">>
Chars_1999_12_31 == <<"1", "9", "9", "9", "-", "1", "2", "-", "3", "1">>
Chars_2023_02_30 == <<"2", "0", "2", "3", "-", "0", "2", "-", "3", "0">>
Chars_2000_1_1 == <<"2", "0", "0", "0", "-", "1", "-", "1">>

DateElements ==
    {PyStr(Chars_2000_01_01), PyStr(Chars_2000_02_29), PyStr(Chars_2000_10_09),
     PyStr(Chars_1999_12_31), PyStr(Chars_2023_02_30), PyStr(Chars_2000_1_1),
     PyNone, Five}

RECURSIVE ListsOf(_, _)
\* the sequences of exactly n elements of a set
ListsOf(elements, n) ==
    IF n = 0 THEN {<<>>}
    ELSE {Append(l, e) : l \in ListsOf(elements, n - 1), e \in elements}

DateLists ==
    {PyList(l) : l \in UNION {ListsOf(DateElements, n) : n \in 0..MaxDates}}
        \cup {PyNone, Five, PyStr(Chars_2000_01_01), PyStr(<<>>)}

-----------------------------------------------------------------------------
(* The extremes specification: earliest_date and latest_date applied to a   *)
(* list of dates.                                                           *)

InitExtremes ==
    /\ date_list \in DateLists
    /\ earliest = Pending
    /\ latest = Pending
    /\ TableIdle
    /\ DateIdle
    /\ FilterIdle
    /\ TextIdle
    /\ AnalyzerIdle
    /\ ResearcherIdle

Earliest ==
    /\ earliest = Pending
    /\ earliest' = earliest_date(date_list)
    /\ UNCHANGED <<date_list, latest>>
    /\ UNCHANGED <<tableVars, dateVars, filterVars, textVars, analyzerVars, researcherVars>>

Latest ==
    /\ latest = Pending
    /\ latest' = latest_date(date_list)
    /\ UNCHANGED <<date_list, earliest>>
    /\ UNCHANGED <<tableVars, dateVars, filterVars, textVars, analyzerVars, researcherVars>>

NextExtremes == Earliest \/ Latest

SpecExtremes == InitExtremes /\ [][NextExtremes]_vars

-----------------------------------------------------------------------------
(* FilteredPub and PubAnalyzer *)

\* the fields of the FilteredPub named tuple the analyzer reads
FilteredPubFields ==
    <<"doi", "publisher", "journal", "normalized_received",
      "normalized_accepted", "normalized_published", "received_2_accepted",
      "received_2_published", "accepted_2_published">>

FilteredPub(fields) == [type |-> "FilteredPub", chars |-> <<>>, items |-> fields]

\* pub.<name>
Field(pub, name) ==
    pub.items[CHOOSE k \in 1..Len(FilteredPubFields) : FilteredPubFields[k] = name]

RECURSIVE DaysBeforeMonth(_, _)
\* the days of the year y before its month m
DaysBeforeMonth(y, m) ==
    IF m = 1 THEN 0 ELSE DaysBeforeMonth(y, m - 1) + DaysInMonth(y, m - 1)

\* datetime.date.toordinal: the days from 0001-01-01, that day being day 1
toordinal(d) ==
    (d[1] - 1) * 365 + (d[1] - 1) \div 4 - (d[1] - 1) \div 100
        + (d[1] - 1) \div 400 + DaysBeforeMonth(d[1], d[2]) + d[3]

\* the int n
IntOf(n) ==
    IF n < 0 THEN PyInt(<<"-">> \o ZeroPadded(0 - n, 1))
    ELSE PyInt(ZeroPadded(n, 1))

\* the number an int stands for
NumberOfInt(v) ==
    IF Head(v.chars) = "-" THEN 0 - DigitsValue(Tail(v.chars), 0)
    ELSE DigitsValue(v.chars, 0)

\* (end_date - start_date).days when both dates are present, else None
Interval(start_date, end_date) ==
    IF start_date.type = "str" /\ end_date.type = "str"
    THEN IntOf(toordinal(date_fromisoformat(end_date.chars).date)
                 - toordinal(date_fromisoformat(start_date.chars).date))
    ELSE PyNone

\* the FilteredPub a search builds of a stored row
FilteredPubOf(row) ==
    FilteredPub(<<row.doi, row.normalized_publisher, row.normalized_journal,
                  row.normalized_received, row.normalized_accepted,
                  row.normalized_published,
                  Interval(row.normalized_received, row.normalized_accepted),
                  Interval(row.normalized_received, row.normalized_published),
                  Interval(row.normalized_accepted, row.normalized_published)>>)

\* appeer.general.utils.check_FilteredPub_type: a list of FilteredPub passes
check_FilteredPub_type(v) ==
    IF v.type = "list" /\ \A i \in 1..Len(v.items) : v.items[i].type = "FilteredPub"
    THEN "ok"
    ELSE "TypeError"

\* ``if value:`` for None and for a list
Truthy(v) == v.type = "list" /\ v.items # <<>>

\* PubAnalyzer.load_data: what self._filtered_pubs becomes
load_data(pubs) ==
    IF Truthy(pubs)
    THEN IF check_FilteredPub_type(pubs) = "ok"
         THEN Returned(pubs)
         ELSE Raised("TypeError", "", "")
    ELSE Returned(PyList(<<>>))

\* a dict, its items in insertion order
PyDict(pairs) == [type |-> "dict", chars |-> <<>>, items |-> pairs]

\* a float that is the quotient of two integers
PyFloat(numerator, denominator) ==
    [type |-> "float", chars |-> <<>>, items |-> <<numerator, denominator>>]

\* [pub.<name> for pub in self._filtered_pubs]
Values(pubs, name) == [i \in 1..Len(pubs) |-> Field(pubs[i], name)]

\* Counter(values): each distinct value with the times it occurs, in the
\* order of first occurrence
Counter(values) ==
    LET keys == DistinctFrom(values, {})
    IN  PyDict([k \in 1..Len(keys) |->
                   <<keys[k],
                     IntOf(Cardinality({i \in 1..Len(values) :
                                           values[i] = keys[k]}))>>])

RECURSIVE Sum(_)
Sum(values) ==
    IF values = <<>> THEN 0
    ELSE NumberOfInt(Head(values)) + Sum(Tail(values))

MsgNoneType == "unsupported operand type(s) for +: 'int' and 'NoneType'"

\* a mean that divides by one more than the number of values
average_OneMore(values) ==
    IF \E i \in 1..Len(values) : values[i].type # "int"
    THEN Raised("TypeError", MsgNoneType, "")
    ELSE Returned(PyFloat(Sum(values), Len(values) + 1))

\* np.average(values) for a non-empty list of ints and Nones
average(values) ==
    IF \E i \in 1..Len(values) : values[i].type # "int"
    THEN Raised("TypeError", MsgNoneType, "")
    ELSE Returned(PyFloat(Sum(values), Len(values)))

\* the keys of the summary that are computed of a field, in the order they
\* are computed
ComputedKeys ==
    <<"min_received", "max_received", "min_accepted", "max_accepted",
      "min_published", "max_published", "average_ra", "average_rp",
      "average_ap">>

\* the field each of them is computed of
ComputedOf ==
    <<"normalized_received", "normalized_received", "normalized_accepted",
      "normalized_accepted", "normalized_published", "normalized_published",
      "received_2_accepted", "received_2_published", "accepted_2_published">>

\* the outcome of computing one key of the values of its field
Apply(key, values) ==
    CASE key \in {"min_received", "min_accepted", "min_published"} ->
            earliest_date(PyList(values))
      [] key \in {"max_received", "max_accepted", "max_published"} ->
            latest_date(PyList(values))
      [] OTHER -> average(values)

\* the outcome of computing the k-th key for the records pubs
Computed(pubs, k) ==
    CHOOSE outcome \in {Apply(ComputedKeys[k], values) :
                            values \in {Values(pubs, ComputedOf[k])}} : TRUE

\* the summary once its keys are computed: the exception of the first key
\* that raised one, or the dict
Summarized(pubs, computed) ==
    LET publishers == Counter(Values(pubs, "publisher"))
        journals == Counter(Values(pubs, "journal"))
        raised == {k \in 1..Len(computed) : computed[k].exc # "none"}
    IN  IF raised # {}
        THEN computed[CHOOSE k \in raised : \A j \in raised : k <= j]
        ELSE Returned(PyDict(
                 <<<<"no_of_pubs", IntOf(Len(pubs))>>,
                   <<"publishers", publishers>>,
                   <<"no_of_publishers", IntOf(Len(publishers.items))>>,
                   <<"journals", journals>>,
                   <<"no_of_journals", IntOf(Len(journals.items))>>>>
                 \o [k \in 1..Len(ComputedKeys) |->
                        <<ComputedKeys[k], computed[k].val>>]))

\* PubAnalyzer.basic_search_results for self._filtered_pubs = pubs
basic_search_results(pubs) ==
    IF ~Truthy(pubs) THEN Returned(PyDict(<<>>))
    ELSE CHOOSE outcome \in
             {Summarized(pubs.items, computed) :
                 computed \in {[k \in 1..Len(ComputedKeys) |->
                                   Computed(pubs.items, k)]}} : TRUE

-----------------------------------------------------------------------------
(* The results given to PubAnalyzer *)

MaxPubs == 3

\* stored rows: with every date, with some dates, with none
SearchRows ==
    {Entry(PyStr(<<"1", "0", "/", "a">>), RSC, Nanoscale, Article,
           PyStr(Chars_2000_01_01), PyStr(Chars_2000_02_29),
           PyStr(Chars_2000_10_09), PyNone),
     Entry(PyStr(<<"1", "0", "/", "b">>), ACS, Nanoscale, PyNone,
           PyStr(Chars_1999_12_31), PyStr(Chars_2000_01_01),
           PyStr(Chars_2000_02_29), PyNone),
     Entry(PyStr(<<"1", "0", "/", "c">>), RSC, PyNone, Article,
           PyStr(Chars_1999_12_31), PyNone, PyStr(Chars_2000_01_01), PyNone),
     Entry(PyStr(<<"1", "0", "/", "d">>), PyNone, Nanoscale, PyNone,
           PyNone, PyNone, PyNone, PyNone)}

FoundPubs == {FilteredPubOf(row) : row \in SearchRows}

AnalyzerArguments ==
    {PyList(l) : l \in UNION {ListsOf(FoundPubs, n) : n \in 0..MaxPubs}}
        \cup {PyNone}

-----------------------------------------------------------------------------
(* The analyzer specification: a PubAnalyzer is constructed of the results  *)
(* of a search and asked for basic_search_results.                          *)

InitAnalyzer ==
    /\ filtered_pubs \in AnalyzerArguments
    /\ analyzer_filtered_pubs = PyNone
    /\ summary = Pending
    /\ TableIdle
    /\ DateIdle
    /\ FilterIdle
    /\ TextIdle
    /\ ExtremesIdle
    /\ ResearcherIdle

LoadData ==
    /\ analyzer_filtered_pubs = PyNone
    /\ load_data(filtered_pubs).exc = "none"
    /\ analyzer_filtered_pubs' = load_data(filtered_pubs).val
    /\ UNCHANGED <<filtered_pubs, summary>>
    /\ UNCHANGED <<tableVars, dateVars, filterVars, textVars, extremeVars, researcherVars>>

BasicSearchResults ==
    /\ analyzer_filtered_pubs # PyNone
    /\ summary = Pending
    /\ summary' = basic_search_results(analyzer_filtered_pubs)
    /\ UNCHANGED <<filtered_pubs, analyzer_filtered_pubs>>
    /\ UNCHANGED <<tableVars, dateVars, filterVars, textVars, extremeVars, researcherVars>>

NextAnalyzer == LoadData \/ BasicSearchResults

SpecAnalyzer == InitAnalyzer /\ [][NextAnalyzer]_vars

-----------------------------------------------------------------------------
(* Pub.filter_pjt: the rows the compiled filters select, as FilteredPub, in  *)
(* the order (publisher, journal, received, accepted).                      *)

\* a < b for two dates of the results: an absent date comes last
DateLess(a, b) ==
    \/ a.type = "str" /\ b.type = "NoneType"
    \/ a.type = "str" /\ b.type = "str" /\ BinaryLess(a.chars, b.chars)

\* whether row r comes strictly before row s in the results
RowBefore(r, s) ==
    \/ SqlLess(r.normalized_publisher, s.normalized_publisher)
    \/ /\ r.normalized_publisher = s.normalized_publisher
       /\ SqlLess(r.normalized_journal, s.normalized_journal)
    \/ /\ r.normalized_publisher = s.normalized_publisher
       /\ r.normalized_journal = s.normalized_journal
       /\ DateLess(r.normalized_received, s.normalized_received)
    \/ /\ r.normalized_publisher = s.normalized_publisher
       /\ r.normalized_journal = s.normalized_journal
       /\ r.normalized_received = s.normalized_received
       /\ DateLess(r.normalized_accepted, s.normalized_accepted)

RECURSIVE InsertSorted(_, _)
\* row put into sorted rows, behind the rows it does not come before
InsertSorted(sorted, row) ==
    IF sorted = <<>> THEN <<row>>
    ELSE IF RowBefore(row, Head(sorted)) THEN <<row>> \o sorted
    ELSE <<Head(sorted)>> \o InsertSorted(Tail(sorted), row)

RECURSIVE Sorted(_)
\* a stable sort: rows that compare equal keep the order of the store
Sorted(rows) ==
    IF rows = <<>> THEN <<>>
    ELSE InsertSorted(Sorted(SubSeq(rows, 1, Len(rows) - 1)), rows[Len(rows)])

\* the results for the outcome c of compiling the filters
Filtered(t, c) ==
    IF c.exc # "none" THEN c
    ELSE IF SqlStatus(c.val[1], c.val[2]) # "ok"
    THEN Raised(SqlStatus(c.val[1], c.val[2]), "", "")
    ELSE LET selected ==
                 Sorted(SelectSeq(t, LAMBDA row :
                                         RowSelected(c.val[1], c.val[2], row)))
         IN  Returned(PyList([i \in 1..Len(selected) |->
                                 FilteredPubOf(selected[i])]))

\* Pub.filter_pjt(**kw) on the table t; the table is only read
filter_pjt(t, kw) ==
    CHOOSE outcome \in {Filtered(t, c) : c \in {prepare_filters(kw)}} : TRUE

-----------------------------------------------------------------------------
(* PubReSearcher: the session of one researcher.  A session is the record   *)
(* of self.filtered_pubs, self._search_performed and the data loaded in     *)
(* self.analyzer.                                                           *)

Session(pubs, performed, data) ==
    [filtered_pubs |-> pubs, search_performed |-> performed, analyzer |-> data]

\* PubReSearcher(filtered_pubs=None)
NewSession == Session(PyList(<<>>), Truthy(PyList(<<>>)), load_data(PyList(<<>>)).val)

\* a search_pub that sets the flag before it filters
search_pub_FlagFirst(session, results) ==
    IF results.exc # "none" THEN [session EXCEPT !.search_performed = TRUE]
    ELSE Session(results.val, TRUE, load_data(results.val).val)

\* PubReSearcher.search_pub: the session after the call, results being the
\* outcome of self._pub.filter_pjt; an exception leaves before any assignment
search_pub(session, results) ==
    IF results.exc # "none" THEN session
    ELSE Session(results.val, TRUE, load_data(results.val).val)

MsgNoSearch == "No searches were yet performed. To perform a search, use the PubReSearcher().search_pub() method."
MsgNoPubs == "No publications satisfy the inputted criteria."
MsgNoLen == "object of type 'NoneType' has no len()"

\* one line of a report: a label left-justified to width, a space, a text
Line(label, width, text) == [label |-> label, width |-> width, text |-> text]

\* a str given by its lines
Report(lines) == [type |-> "str", chars |-> <<>>, items |-> lines]

\* the labels of the statistics with the key of the summary each shows
Statistics ==
    <<<<"no_of_publications", "no_of_pubs">>,
      <<"no_of_publishers", "no_of_publishers">>,
      <<"no_of_journals", "no_of_journals">>,
      <<"min_received", "min_received">>, <<"max_received", "max_received">>,
      <<"min_accepted", "min_accepted">>, <<"max_accepted", "max_accepted">>,
      <<"min_published", "min_published">>,
      <<"max_published", "max_published">>,
      <<"average_ra", "average_ra">>, <<"average_rp", "average_rp">>,
      <<"average_ap", "average_ap">>>>

\* len(max([...the labels...], key=len)) + 2
StatisticsAlign == 20

\* the value of a key of a dict
Item(dict, key) ==
    dict.items[CHOOSE k \in 1..Len(dict.items) : dict.items[k][1] = key][2]

\* f'{x:.2f}' for the quotient of two integers, no quotient met here lying
\* midway between two hundredths
Format2f(x) ==
    LET hundredths == (2 * 100 * x.items[1] + x.items[2]) \div (2 * x.items[2])
    IN  ZeroPadded(hundredths \div 100, 1) \o <<".">>
            \o ZeroPadded(hundredths % 100, 2)

\* f'{value}' for an int or a str, f'{value:.2f}' for a float
Formatted(value) ==
    IF value.type = "float" THEN Format2f(value) ELSE value.chars

\* len(max(counts.keys(), key=len)) + 2, or 0 when len() raises
Align(counts) ==
    IF \E k \in 1..Len(counts.items) : counts.items[k][1].type # "str"
    THEN 0
    ELSE 2 + CHOOSE n \in {Len(counts.items[k][1].chars) :
                              k \in 1..Len(counts.items)} :
                 \A k \in 1..Len(counts.items) :
                     Len(counts.items[k][1].chars) <= n

\* a heading with the lines '{key:<{align}} ({hits})' of a Counter
Histogram(heading, counts) ==
    <<Line(heading, 0, <<>>)>>
    \o [k \in 1..Len(counts.items) |->
           Line(counts.items[k][1].chars, Align(counts),
                <<"(">> \o counts.items[k][2].chars \o <<")">>)]

\* PubReSearcher.search_summary, b being the outcome of
\* self.analyzer.basic_search_results when that is read
search_summary(performed, pubs, b) ==
    IF ~performed THEN Returned(Report(<<Line(MsgNoSearch, 0, <<>>)>>))
    ELSE IF ~Truthy(pubs) THEN Returned(Report(<<Line(MsgNoPubs, 0, <<>>)>>))
    ELSE IF b.exc # "none" THEN b
    ELSE IF Align(Item(b.val, "publishers")) = 0
            \/ Align(Item(b.val, "journals")) = 0
    THEN Raised("TypeError", MsgNoLen, "")
    ELSE Returned(Report(
             <<Line("Search Summary", 0, <<>>)>>
             \o [k \in 1..Len(Statistics) |->
                    Line(Statistics[k][1], StatisticsAlign,
                         Formatted(Item(b.val, Statistics[k][2])))]
             \o Histogram("Publishers (no. of publications)",
                          Item(b.val, "publishers"))
             \o Histogram("Journals (no. of publications)",
                          Item(b.val, "journals"))))

-----------------------------------------------------------------------------
(* The stores and the criteria of the searches *)

MaxStored == 3

Stores ==
    UNION {{t \in ListsOf(SearchRows, n) :
               \A i, j \in 1..n : i # j => t[i].doi # t[j].doi} :
           n \in 0..MaxStored}

SearchKwargs ==
    {NoKwargs,
     WithKey(NoKwargs, "normalized_publisher", PyList(<<ACS>>)),
     WithKey(NoKwargs, "normalized_publisher", PyList(<<RSC, ACS>>)),
     WithKey(NoKwargs, "normalized_publisher", PyList(<<RSC, Five>>)),
     WithKey(NoKwargs, "min_received", D_2000_3_5),
     WithKey(NoKwargs, "max_received", D_2000_06),
     WithKey(NoKwargs, "min_received", D_abcd),
     WithKey(NoKwargs, "min_published", D_2147483648)}

-----------------------------------------------------------------------------
(* The researcher specification: a PubReSearcher constructed without        *)
(* results searches a store and reads search_summary.  The store is table,  *)
(* the call of filter_pjt is op with its outcome ret, the data of the       *)
(* analyzer is analyzer_filtered_pubs.                                      *)

InitResearcher ==
    /\ table \in Stores
    /\ before = <<>>
    /\ op = NoCall
    /\ ret = Pending
    /\ queries = <<>>
    /\ researcher_filtered_pubs = NewSession.filtered_pubs
    /\ search_performed = NewSession.search_performed
    /\ filtered_pubs = NewSession.filtered_pubs
    /\ analyzer_filtered_pubs = NewSession.analyzer
    /\ summary = Pending
    /\ report = Pending
    /\ has_returned = FALSE
    /\ DateIdle
    /\ FilterIdle
    /\ TextIdle
    /\ ExtremesIdle

\* the session in the state
TheSession ==
    Session(researcher_filtered_pubs, search_performed, analyzer_filtered_pubs)

\* researcher.search_pub(**kw)
SearchPub ==
    \E kw \in SearchKwargs :
        \E results \in {filter_pjt(table, kw)} :
            \E session \in {search_pub(TheSession, results)} :
                /\ op' = [name |-> "filter_pjt", overwrite |-> FALSE, args |-> kw]
                /\ ret' = results
                /\ before' = table
                /\ table' = table
                /\ queries' = <<>>
                /\ researcher_filtered_pubs' = session.filtered_pubs
                /\ search_performed' = session.search_performed
                /\ analyzer_filtered_pubs' = session.analyzer
                /\ filtered_pubs' = IF results.exc = "none" THEN results.val ELSE filtered_pubs
                /\ summary' = IF results.exc = "none" THEN Pending ELSE summary
                /\ has_returned' = (has_returned \/ results.exc = "none")
                /\ report' = Pending
                /\ UNCHANGED <<dateVars, filterVars, textVars, extremeVars>>

\* researcher.search_summary
SearchSummary ==
    /\ report = Pending
    /\ \E b \in {IF search_performed /\ Truthy(researcher_filtered_pubs)
                 THEN basic_search_results(analyzer_filtered_pubs)
                 ELSE summary} :
           /\ summary' = b
           /\ report' = search_summary(search_performed, researcher_filtered_pubs, b)
    /\ UNCHANGED <<researcher_filtered_pubs, search_performed, has_returned>>
    /\ UNCHANGED <<filtered_pubs, analyzer_filtered_pubs>>
    /\ UNCHANGED <<tableVars, dateVars, filterVars, textVars, extremeVars>>

NextResearcher == SearchPub \/ SearchSummary

SpecResearcher == InitResearcher /\ [][NextResearcher]_vars

-----------------------------------------------------------------------------
(* Properties of normalize_date_2iso, checked under SpecDate *)

ReturnsStr(r, cs) == r.exc = "none" /\ r.val.chars = cs

\* the integer the i-th hyphen-separated segment gives, 1 when it is missing
GivenOrOne(segs, i) == IF Len(segs) >= i THEN IntValue(int(segs[i])) ELSE 1

(* C8: every value normalize_date_2iso returns is YYYY-MM-DD made of the    *)
(* given year, the given month or 01 when there is none, and the given day  *)
(* or 01 when there is none, month and day padded to two digits; "2000"     *)
(* gives "2000-01-01", "2000-03" gives "2000-03-01", "2000-3-5" and         *)
(* "2000-03-05" give "2000-03-05".                                          *)
C8_ReturnsPaddedIsoDate ==
    /\ normalized.exc = "none" =>
         LET out == normalized.val.chars
             segs == str_split(date.chars, "-")
         IN  /\ Len(out) = 10
             /\ out[5] = "-"
             /\ out[8] = "-"
             /\ \A i \in {1, 2, 3, 4, 6, 7, 9, 10} : out[i] \in Digit
             /\ DigitsValue(SubSeq(out, 1, 4), 0) = GivenOrOne(segs, 1)
             /\ DigitsValue(SubSeq(out, 6, 7), 0) = GivenOrOne(segs, 2)
             /\ DigitsValue(SubSeq(out, 9, 10), 0) = GivenOrOne(segs, 3)
    /\ normalized.exc # "pending" =>
         /\ date = PyStr(<<"2", "0", "0", "0">>) =>
              ReturnsStr(normalized,
                         <<"2", "0", "0", "0", "-", "0", "1", "-", "0", "1">>)
         /\ date = PyStr(<<"2", "0", "0", "0", "-", "0", "3">>) =>
              ReturnsStr(normalized,
                         <<"2", "0", "0", "0", "-", "0", "3", "-", "0", "1">>)
         /\ date = PyStr(<<"2", "0", "0", "0", "-", "3", "-", "5">>) =>
              ReturnsStr(normalized,
                         <<"2", "0", "0", "0", "-", "0", "3", "-", "0", "5">>)
         /\ date = PyStr(<<"2", "0", "0", "0", "-", "0", "3", "-", "0", "5">>) =>
              ReturnsStr(normalized,
                         <<"2", "0", "0", "0", "-", "0", "3", "-", "0", "5">>)

\* "2000-3-5" has been normalized to "2000-03-05"
C8_Witness ==
    /\ date = PyStr(<<"2", "0", "0", "0", "-", "3", "-", "5">>)
    /\ ReturnsStr(normalized,
                  <<"2", "0", "0", "0", "-", "0", "3", "-", "0", "5">>)

\* (y, m, d) is a date datetime can hold: year 1..9999, month 1..12, and a
\* day the month has in that year
IsCalendarDate(y, m, d) ==
    /\ IntBetween(y, 1, 9999)
    /\ IntBetween(m, 1, 12)
    /\ IntBetween(d, 1, DaysInMonth(IntValue(y), IntValue(m)))

One == [ok |-> TRUE, neg |-> FALSE, digits |-> <<"1">>]

\* the inputs C9 says are refused
C9_Refusable(v) ==
    \/ ~isinstance_str(v)
    \/ LET segs == str_split(v.chars, "-")
       IN  \/ Len(segs) > 3
           \/ \E i \in 1..Len(segs) : ~int(segs[i]).ok
           \/ Len(segs) >= 2 /\ ~IntBetween(int(segs[2]), 1, 12)
           \/ Len(segs) >= 3 /\ ~IntBetween(int(segs[3]), 1, 31)
           \/ ~IsCalendarDate(int(segs[1]),
                              IF Len(segs) >= 2 THEN int(segs[2]) ELSE One,
                              IF Len(segs) >= 3 THEN int(segs[3]) ELSE One)

(* C9: normalize_date_2iso raises ValueError for every input that is not a  *)
(* string, has a segment that is no integer, has more than three segments,  *)
(* a month outside 1..12, a day outside 1..31 or names no real calendar     *)
(* date; and every value it returns is a real calendar date.                *)
C9_RefusedWithValueError ==
    normalized.exc # "pending" =>
        /\ C9_Refusable(date) => normalized.exc = "ValueError"
        /\ normalized.exc = "none" =>
             LET out == str_split(normalized.val.chars, "-")
             IN  /\ Len(out) = 3
                 /\ IsCalendarDate(int(out[1]), int(out[2]), int(out[3]))

(* C10: normalize_date_2iso is idempotent on the inputs it accepts:         *)
(* normalizing its own result succeeds and gives the same string.           *)
C10_Idempotent ==
    renormalized.exc # "pending" =>
        /\ renormalized.exc = "none"
        /\ renormalized.val = normalized.val

\* a partial date ("2000-3", say) was normalized to another string, and
\* that string normalized again
C10_Witness ==
    /\ renormalized.exc = "none"
    /\ date.type = "str"
    /\ Len(str_split(date.chars, "-")) = 2
    /\ date.chars # normalized.val.chars

\* the year segment of a date string
YearSegment(v) == str_split(v.chars, "-")[1]

\* the year segment is a sign followed by something
Signed(y) == y # <<>> /\ y[1] \in {"+", "-"}

\* the year part of a returned date is the integer n, padded with zeros to
\* four digits or written out when it has more
PaddedYear(r, n) ==
    /\ r.exc = "none"
    /\ LET y == str_split(r.val.chars, "-")[1]
       IN  /\ Len(y) >= 4
           /\ \A i \in 1..Len(y) : y[i] \in Digit
           /\ DropLeadingZeros(y) = n.digits
           /\ Len(y) > 4 => y[1] # "0"

(* C11 as it is written: a bare year that is any integer without a sign is *)
(* accepted and padded to at least four digits; a year segment with a sign *)
(* ("+" or "-") or one that is no integer makes the call fail.             *)
C11_AnyUnsignedYear ==
    (normalized.exc # "pending" /\ isinstance_str(date)) =>
        LET segs == str_split(date.chars, "-")
            y == YearSegment(date)
        IN  /\ (Len(segs) = 1 /\ int(y).ok /\ ~Signed(y)) =>
                  PaddedYear(normalized, int(y))
            /\ (Signed(y) \/ ~int(y).ok \/ Head(date.chars \o <<"">>) = "-") =>
                  normalized.exc # "none"

(* C11, amended: a year segment int() reads as an integer from 1 to 9999,  *)
(* with or without a leading "+", is accepted (alone, or with a month and  *)
(* day that name a date of that year) and is left-padded with zeros to     *)
(* four digits in the result; a date that begins with "-", a year segment  *)
(* int() cannot read, and a year outside 1..9999 make the call fail.       *)
C11_YearFrom1To9999 ==
    (normalized.exc # "pending" /\ isinstance_str(date)) =>
        LET segs == str_split(date.chars, "-")
            y == YearSegment(date)
            good == int(y).ok /\ IntBetween(int(y), 1, 9999)
        IN  /\ (good /\ (Len(segs) = 1 \/ ~C9_Refusable(date))) =>
                  /\ PaddedYear(normalized, int(y))
                  /\ Len(str_split(normalized.val.chars, "-")[1]) = 4
            /\ (~good \/ Head(date.chars \o <<"">>) = "-") =>
                  normalized.exc # "none"

\* the year "5", given with a month, came back as "0005"
C11_Witness ==
    /\ isinstance_str(date)
    /\ YearSegment(date) = <<"5">>
    /\ Len(str_split(date.chars, "-")) = 2
    /\ normalized.exc = "none"
    /\ str_split(normalized.val.chars, "-")[1] = <<"0", "0", "0", "5">>

-----------------------------------------------------------------------------
(* Properties of _prepare_filters, checked under SpecFilter *)

DateKeys == {"min_received", "max_received", "min_accepted", "max_accepted",
             "min_published", "max_published"}

MinKeys == {"min_received", "min_accepted", "min_published"}

\* the column a criterion constrains
ColumnOf(key) ==
    CASE key \in {"min_received", "max_received"} -> "normalized_received"
      [] key \in {"min_accepted", "max_accepted"} -> "normalized_accepted"
      [] key \in {"min_published", "max_published"} -> "normalized_published"
      [] OTHER -> key

\* the comparison a criterion stands for
ComparisonOf(key) ==
    IF key \in ListKeys THEN "IN" ELSE IF key \in MinKeys THEN ">=" ELSE "<="

\* the name under which a criterion's failure is reported
NameOf(key) ==
    CASE key = "normalized_publisher" -> MsgPublishers
      [] key = "normalized_journal" -> MsgJournals
      [] key = "publication_type" -> MsgTypes
      [] key = "min_received" -> MsgMinReceived
      [] key = "max_received" -> MsgMaxReceived
      [] key = "min_accepted" -> MsgMinAccepted
      [] key = "max_accepted" -> MsgMaxAccepted
      [] key = "min_published" -> MsgMinPublished
      [] key = "max_published" -> MsgMaxPublished

\* a criterion value C1 calls invalid
InvalidCriterion(key, v) ==
    IF key \in ListKeys
    THEN ~(\/ v.type = "str"
           \/ v.type = "list" /\ \A i \in 1..Len(v.items) : v.items[i].type = "str")
    ELSE normalize_date_2iso(v).exc # "none"

InvalidPositions(kw) ==
    {i \in 1..Len(CompilationOrder) :
        /\ CompilationOrder[i] \in DOMAIN kw
        /\ InvalidCriterion(CompilationOrder[i], kw[CompilationOrder[i]])}

FirstInvalid(kw) ==
    CompilationOrder[CHOOSE i \in InvalidPositions(kw) :
                        \A j \in InvalidPositions(kw) : i <= j]

(* C1: when at least one present criterion is invalid, _prepare_filters     *)
(* raises a ValueError that names the first invalid criterion in            *)
(* compilation order, and returns no (clause, arguments) pair, whatever     *)
(* valid criteria come before or after it.                                  *)
C1_AllOrNothing ==
    (compiled.exc # "pending" /\ InvalidPositions(kwargs) # {}) =>
        /\ compiled.exc = "ValueError"
        /\ compiled.msg = NameOf(FirstInvalid(kwargs))

\* the operands a present, valid criterion contributes, in their order
OperandsOf(kw, key) ==
    IF key \in ListKeys
    THEN IF kw[key].type = "str" THEN <<kw[key]>> ELSE kw[key].items
    ELSE <<normalize_date_2iso(kw[key]).val>>

\* the criteria that are the same column and comparison as a condition
CriteriaOf(cond) ==
    {i \in 1..Len(CompilationOrder) :
        /\ ColumnOf(CompilationOrder[i]) = cond.column
        /\ ComparisonOf(CompilationOrder[i]) = cond.cmp}

NumberOf(q, token) == Cardinality({i \in 1..Len(q) : q[i] = token})

(* C2: the clause and the argument list are in lock-step: as many "?" as    *)
(* arguments, and the arguments that fall, from left to right, on the       *)
(* placeholders of a fragment are the operands of that fragment's           *)
(* criterion (a list's elements in their order, a bound's normalized date). *)
C2_LockStep ==
    compiled.exc = "none" =>
        LET q == compiled.val[1]
            args == compiled.val[2]
            conds == Conditions(q, 1, "WHERE")
        IN  /\ NumberOf(q, "?") = Len(args)
            /\ \A k \in 1..Len(conds) :
                 /\ conds[k] # SyntaxError
                 /\ \E i \in CriteriaOf(conds[k]) :
                      /\ CompilationOrder[i] \in DOMAIN kwargs
                      /\ Operands(conds, args, k)
                            = OperandsOf(kwargs, CompilationOrder[i])

\* a fragment with two placeholders is followed by another fragment
C2_Witness ==
    /\ compiled.exc = "none"
    /\ kwargs = [normalized_publisher |-> PyList(<<RSC, ACS>>),
                 max_published |-> D_2000_06,
                 publication_type |-> Article]
    /\ compiled.val[2] =
         <<RSC, ACS,
           PyStr(<<"2", "0", "0", "0", "-", "0", "6", "-", "0", "1">>), Article>>

\* stored rows of every kind the criteria tell apart
R_1999_12_31 == PyStr(<<"1", "9", "9", "9", "-", "1", "2", "-", "3", "1">>)
R_2000_01_01 == PyStr(<<"2", "0", "0", "0", "-", "0", "1", "-", "0", "1">>)
R_2000_03_05 == PyStr(<<"2", "0", "0", "0", "-", "0", "3", "-", "0", "5">>)
R_2000_06_01 == PyStr(<<"2", "0", "0", "0", "-", "0", "6", "-", "0", "1">>)
R_2000_06_15 == PyStr(<<"2", "0", "0", "0", "-", "0", "6", "-", "1", "5">>)

FilterRows ==
    [doi : {PyStr(<<"x">>)},
     normalized_publisher : {RSC, ACS, PyNone},
     normalized_journal : {Nanoscale, PyNone},
     publication_type : {Article, PyNone},
     normalized_received : {R_1999_12_31, R_2000_03_05, PyNone},
     normalized_accepted : {R_2000_03_05, R_2000_06_15, PyNone},
     normalized_published : {R_1999_12_31, R_2000_01_01, R_2000_03_05,
                             R_2000_06_01, R_2000_06_15, PyNone},
     title : {PyStr(<<"t">>)}]

\* a canonical YYYY-MM-DD string as a number that orders dates in time
DateNumber(cs) ==
    DigitsValue(SubSeq(cs, 1, 4), 0) * 10000
        + DigitsValue(SubSeq(cs, 6, 7), 0) * 100
        + DigitsValue(SubSeq(cs, 9, 10), 0)

RECURSIVE OperandsFrom(_, _)
\* the operands of the criteria from the i-th on, none for a missing one
OperandsFrom(kw, i) ==
    IF i > Len(CompilationOrder) THEN <<>>
    ELSE <<IF CompilationOrder[i] \in DOMAIN kw
           THEN OperandsOf(kw, CompilationOrder[i]) ELSE <<>> >>
         \o OperandsFrom(kw, i + 1)

\* a row satisfies one present, valid criterion, whose operands are ops
Meets(row, key, ops) ==
    LET x == row[ColumnOf(key)]
    IN  /\ x.type = "str"
        /\ IF key \in ListKeys THEN \E i \in 1..Len(ops) : ops[i] = x
           ELSE IF key \in MinKeys
                THEN DateNumber(x.chars) >= DateNumber(ops[1].chars)
           ELSE DateNumber(x.chars) <= DateNumber(ops[1].chars)

\* a row satisfies every present criterion
MeetsAll(row, kw, ops) ==
    \A i \in 1..Len(CompilationOrder) :
        CompilationOrder[i] \in DOMAIN kw =>
            Meets(row, CompilationOrder[i], ops[i])

(* C3: the compiled predicate is the AND of exactly the present criteria:   *)
(* the query executes and selects a row iff the row meets every present     *)
(* criterion; with no criterion the clause and the arguments are empty and  *)
(* every row is selected; with only a publisher list exactly the rows of    *)
(* those publishers are selected; a NULL in a constrained column is never   *)
(* selected.                                                                *)
C3_ConjunctionOfPresentCriteria ==
    compiled.exc = "none" =>
        LET q == compiled.val[1]
            args == compiled.val[2]
            bound == BoundConditions(q, args)
            ops == OperandsFrom(kwargs, 1)
        IN  /\ SqlStatus(q, args) = "ok"
            /\ \A row \in FilterRows :
                 /\ RowSatisfies(bound, row)
                      <=> MeetsAll(row, kwargs, ops)
                 /\ RowSatisfies(bound, row) =>
                      \A key \in DOMAIN kwargs : row[ColumnOf(key)] # PyNone
            /\ kwargs = NoKwargs =>
                 /\ q = <<>>
                 /\ args = <<>>
                 /\ \A row \in FilterRows : RowSatisfies(bound, row)
            /\ DOMAIN kwargs = {"normalized_publisher"} =>
                 \A row \in FilterRows :
                     RowSatisfies(bound, row)
                       <=> \E i \in 1..Len(ops[1]) :
                             ops[1][i] = row.normalized_publisher

\* a publisher list and two bounds were compiled together
C3_Witness ==
    /\ compiled.exc = "none"
    /\ DOMAIN kwargs = {"normalized_publisher", "min_received", "max_accepted"}
    /\ \E row \in FilterRows : RowSelected(compiled.val[1], compiled.val[2], row)
    /\ \E row \in FilterRows : ~RowSelected(compiled.val[1], compiled.val[2], row)

(* C4: every date bound goes through normalize_date_2iso and is compared    *)
(* inclusively with its normalized_* column, >= for a min and <= for a max; *)
(* min_published="2000" with max_published="2000-06" selects exactly the    *)
(* rows published from 2000-01-01 to 2000-06-01, both included.             *)
C4_InclusiveNormalizedBounds ==
    compiled.exc = "none" =>
        LET q == compiled.val[1]
            args == compiled.val[2]
            conds == Conditions(q, 1, "WHERE")
        IN  /\ \A key \in DOMAIN kwargs \cap DateKeys :
                 \E k \in 1..Len(conds) :
                    /\ conds[k].column = ColumnOf(key)
                    /\ conds[k].cmp = ComparisonOf(key)
                    /\ Operands(conds, args, k)
                          = <<normalize_date_2iso(kwargs[key]).val>>
            /\ kwargs = [min_published |-> D_2000, max_published |-> D_2000_06] =>
                 \A row \in FilterRows :
                    RowSelected(q, args, row)
                      <=> row.normalized_published
                            \in {R_2000_01_01, R_2000_03_05, R_2000_06_01}

\* the example of C4 was compiled, and leaves out a row of 15 June 2000
C4_Witness ==
    /\ compiled.exc = "none"
    /\ kwargs = [min_published |-> D_2000, max_published |-> D_2000_06]
    /\ \E row \in FilterRows :
          /\ row.normalized_published = R_2000_06_15
          /\ ~RowSelected(compiled.val[1], compiled.val[2], row)

\* a date string with a segment that is no integer, or with too many segments
ShapeError(v) ==
    LET segs == str_split(v.chars, "-")
    IN  Len(segs) > 3 \/ \E i \in 1..Len(segs) : ~int(segs[i]).ok

\* a date string of up to three integer segments that names no calendar date
NotCalendar(v) ==
    /\ ~ShapeError(v)
    /\ LET segs == str_split(v.chars, "-")
       IN  ~IsCalendarDate(int(segs[1]),
                           IF Len(segs) >= 2 THEN int(segs[2]) ELSE One,
                           IF Len(segs) >= 3 THEN int(segs[3]) ELSE One)

\* what a failure says of a date that is no calendar date, and of a shape
ValidationMessages == {MsgMonth, MsgDay, MsgInvalid}
ShapeMessages == {MsgYear, MsgFormat}

(* C12: a date bound of up to three integer segments that is no calendar    *)
(* date (month 13, 30 February) fails validation, and the failure is told   *)
(* apart from that of a shape error (a segment that is no integer, too many *)
(* segments): normalize_date_2iso raises ValueError with a message of its   *)
(* own kind, and _prepare_filters raises the ValueError that names the      *)
(* criterion, with that message as its cause.                               *)
C12_CalendarFailureDistinct ==
    (compiled.exc # "pending" /\ InvalidPositions(kwargs) # {}
        /\ FirstInvalid(kwargs) \in DateKeys
        /\ isinstance_str(kwargs[FirstInvalid(kwargs)])) =>
        LET key == FirstInvalid(kwargs)
            direct == normalize_date_2iso(kwargs[key])
        IN  /\ ValidationMessages \cap ShapeMessages = {}
            /\ NotCalendar(kwargs[key]) =>
                  /\ direct.exc = "ValueError"
                  /\ direct.msg \in ValidationMessages
                  /\ compiled.exc = "ValueError"
                  /\ compiled.msg = NameOf(key)
                  /\ compiled.cause = direct.msg
            /\ ShapeError(kwargs[key]) =>
                  /\ direct.exc = "ValueError"
                  /\ direct.msg \in ShapeMessages
                  /\ compiled.exc = "ValueError"
                  /\ compiled.msg = NameOf(key)
                  /\ compiled.cause = direct.msg

RECURSIVE PresentFrom(_, _)
\* the criteria of kw from the i-th on, in compilation order
PresentFrom(kw, i) ==
    IF i > Len(CompilationOrder) THEN <<>>
    ELSE (IF CompilationOrder[i] \in DOMAIN kw
          THEN <<CompilationOrder[i]>> ELSE <<>>) \o PresentFrom(kw, i + 1)

RECURSIVE LeadsFrom(_, _)
\* the places of the clause, from the i-th on, that hold WHERE or AND
LeadsFrom(q, i) ==
    IF i > Len(q) THEN <<>>
    ELSE (IF q[i] \in {"WHERE", "AND"} THEN <<i>> ELSE <<>>)
         \o LeadsFrom(q, i + 1)

\* the number of arguments a criterion binds
ArgumentsOf(kw, key) ==
    IF key \in ListKeys /\ kw[key].type = "list" THEN Len(kw[key].items) ELSE 1

RECURSIVE ArgumentsFrom(_, _, _)
ArgumentsFrom(kw, present, k) ==
    IF k > Len(present) THEN 0
    ELSE ArgumentsOf(kw, present[k]) + ArgumentsFrom(kw, present, k + 1)

(* C20: in a returned clause the fragments are those of the present         *)
(* criteria in compilation order, the first introduced by WHERE and every   *)
(* later one by AND: one WHERE when a criterion is present and none         *)
(* otherwise, one AND fewer than present criteria; an omitted criterion     *)
(* adds no text and no argument.                                            *)
C20_WhereThenAnd ==
    compiled.exc = "none" =>
        LET q == compiled.val[1]
            args == compiled.val[2]
            present == PresentFrom(kwargs, 1)
            leads == LeadsFrom(q, 1)
        IN  /\ Len(leads) = Len(present)
            /\ \A k \in 1..Len(leads) :
                  /\ q[leads[k]] = IF k = 1 THEN "WHERE" ELSE "AND"
                  /\ q[leads[k] + 1] = ColumnOf(present[k])
                  /\ q[leads[k] + 2] = ComparisonOf(present[k])
            /\ q # <<>> => q[1] = "WHERE"
            /\ NumberOf(q, "WHERE") = IF present = <<>> THEN 0 ELSE 1
            /\ present # <<>> => NumberOf(q, "AND") = Len(present) - 1
            /\ present = <<>> => (q = <<>> /\ args = <<>>)
            /\ Len(args) = ArgumentsFrom(kwargs, present, 1)

\* a clause of three criteria, the publisher and the journal omitted
C20_Witness ==
    /\ compiled.exc = "none"
    /\ DOMAIN kwargs = {"max_received", "min_published", "publication_type"}
    /\ NumberOf(compiled.val[1], "WHERE") = 1
    /\ NumberOf(compiled.val[1], "AND") = 2
    /\ compiled.val[1][2] = "normalized_received"

-----------------------------------------------------------------------------
(* Properties of get_d_M_y and normalize_d_M_y, checked under SpecText *)

\* the English month names, in the order of the calendar
EnglishMonths ==
    <<<<"J", "a", "n", "u", "a", "r", "y">>,
      <<"F", "e", "b", "r", "u", "a", "r", "y">>,
      <<"M", "a", "r", "c", "h">>,
      <<"A", "p", "r", "i", "l">>,
      <<"M", "a", "y">>,
      <<"J", "u", "n", "e">>,
      <<"J", "u", "l", "y">>,
      <<"A", "u", "g", "u", "s", "t">>,
      <<"S", "e", "p", "t", "e", "m", "b", "e", "r">>,
      <<"O", "c", "t", "o", "b", "e", "r">>,
      <<"N", "o", "v", "e", "m", "b", "e", "r">>,
      <<"D", "e", "c", "e", "m", "b", "e", "r">>>>

\* a and b are the same but for the case of their letters
SameButCase(a, b) ==
    /\ Len(a) = Len(b)
    /\ \A i \in 1..Len(a) : upper(a[i]) = upper(b[i])

\* the months M names, in full or by its first three letters
MonthsNamed(M) ==
    {n \in 1..12 : \/ SameButCase(M, EnglishMonths[n])
                   \/ SameButCase(M, SubSeq(EnglishMonths[n], 1, 3))}

\* the leading digits of a day token
RECURSIVE LeadingDigits(_)
LeadingDigits(d) ==
    IF d # <<>> /\ Head(d) \in Digit
    THEN <<Head(d)>> \o LeadingDigits(Tail(d))
    ELSE <<>>

\* a day from 1 to 31, with or without a leading zero, and st, nd, rd or th
\* or nothing after it
IsDayToken(d) ==
    LET ds == LeadingDigits(d)
        rest == SubSeq(d, Len(ds) + 1, Len(d))
    IN  /\ Len(ds) \in {1, 2}
        /\ DigitsValue(ds, 0) \in 1..31
        /\ \/ rest = <<>>
           \/ \E w \in {<<"s", "t">>, <<"n", "d">>, <<"r", "d">>, <<"t", "h">>} :
                 SameButCase(rest, w)

\* f reads "<day> <month-name> <year>"
IsDMY(f) ==
    LET parts == str_split(f, " ")
    IN  /\ Len(parts) = 3
        /\ IsDayToken(parts[1])
        /\ MonthsNamed(parts[2]) # {}
        /\ Len(parts[3]) = 4
        /\ \A i \in 1..4 : parts[3][i] \in Digit

\* two digits for n, from 1 to 31
TwoDigits(n) ==
    LET digit(k) == CHOOSE c \in Digit : DigitVal(c) = k
    IN  <<digit(n \div 10), digit(n % 10)>>

\* the fragments get_d_M_y found
FoundFragments ==
    IF found.exc = "none" /\ found.val.type = "list"
    THEN {found.val.items[i] : i \in 1..Len(found.val.items)}
    ELSE {}

(* C13: for every fragment get_d_M_y returns, normalize_d_M_y knows the     *)
(* month, and returns year-MM-DD, with the number of the month named and   *)
(* the day padded to two digits, when that is a calendar date, and None    *)
(* when it is not ("31 February 9999").                                    *)
C13_RecognizedIsNormalized ==
    (dMy.exc # "pending" /\ fragment \in FoundFragments) =>
        LET parts == str_split(fragment.chars, " ")
            day == DigitsValue(LeadingDigits(parts[1]), 0)
            y == parts[3]
        IN  /\ M_lookup(capitalize(parts[2])).exc = "none"
            /\ \A n \in MonthsNamed(parts[2]) :
                 dMy = IF /\ DigitsValue(y, 0) \in 1..9999
                          /\ day <= DaysInMonth(DigitsValue(y, 0), n)
                       THEN Returned(PyStr(y \o <<"-">> \o TwoDigits(n)
                                             \o <<"-">> \o TwoDigits(day)))
                       ELSE Returned(PyNone)

(* C14: normalize_d_M_y never raises: whatever it is given, it returns a   *)
(* YYYY-MM-DD string or None.                                              *)
C14_NeverRaises ==
    dMy.exc # "pending" =>
        /\ dMy.exc = "none"
        /\ \/ dMy.val = PyNone
           \/ /\ dMy.val.type = "str"
              /\ LET out == str_split(dMy.val.chars, "-")
                 IN  /\ Len(out) = 3
                     /\ Len(out[1]) = 4 /\ Len(out[2]) = 2 /\ Len(out[3]) = 2
                     /\ IsCalendarDate(int(out[1]), int(out[2]), int(out[3]))

\* where the text has a "<day> <month-name> <year>" standing as words
Occurrences(s) ==
    {o \in (1..Len(s)) \X (1..Len(s)) :
        /\ o[2] \in (o[1] + 9)..(o[1] + 18)
        /\ IsDMY(SubSeq(s, o[1], o[2]))
        /\ o[1] = 1 \/ ~IsWord(s[o[1] - 1])
        /\ o[2] = Len(s) \/ ~IsWord(s[o[2] + 1])}

(* C15: get_d_M_y returns the "<day> <month-name> <year>" substrings of    *)
(* the text, every one of them and from left to right; it returns None     *)
(* when there is none, and when it is not given a string.                  *)
C15_EveryFragmentInOrder ==
    found.exc # "pending" =>
        /\ found.exc = "none"
        /\ ~isinstance_str(entry) => found.val = PyNone
        /\ isinstance_str(entry) =>
             LET occ == Occurrences(entry.chars)
             IN  IF occ = {} THEN found.val = PyNone
                 ELSE /\ found.val.type = "list"
                      /\ Len(found.val.items) = Cardinality(occ)
                      /\ \A o \in occ :
                           found.val.items[1 + Cardinality({p \in occ : p[1] < o[1]})]
                               = PyStr(SubSeq(entry.chars, o[1], o[2]))

\* "Received 18th October 2023; Accepted 05 Jun 2060": both, the received
\* one first
C15_Witness ==
    /\ entry = PyStr(Received
                      \o Fragment(<<"1", "8", "t", "h">>,
                                  <<"O", "c", "t", "o", "b", "e", "r">>,
                                  <<"2", "0", "2", "3">>)
                      \o Accepted
                      \o Fragment(<<"0", "5">>, <<"J", "u", "n">>,
                                  <<"2", "0", "6", "0">>))
    /\ found.exc = "none"
    /\ found.val.type = "list"
    /\ Len(found.val.items) = 2
    /\ found.val.items[1].chars[1] = "1"
    /\ found.val.items[2].chars[1] = "0"

-----------------------------------------------------------------------------
(* Properties of earliest_date and latest_date, checked under SpecExtremes *)

\* a str that reads YYYY-MM-DD and names a date of the calendar
CanonicalDate(v) ==
    /\ v.type = "str"
    /\ Len(v.chars) = 10
    /\ v.chars[5] = "-"
    /\ v.chars[8] = "-"
    /\ \A i \in (1..10) \ {5, 8} : v.chars[i] \in Digit
    /\ IsCalendarDate(int(SubSeq(v.chars, 1, 4)), int(SubSeq(v.chars, 6, 7)),
                      int(SubSeq(v.chars, 9, 10)))

\* a non-empty list of canonical dates
CanonicalDates(l) ==
    /\ l.type = "list"
    /\ l.items # <<>>
    /\ \A i \in 1..Len(l.items) : CanonicalDate(l.items[i])

\* an empty list, or a list with an element that is not a str
EmptyOrNonStr(l) ==
    /\ l.type = "list"
    /\ \/ l.items = <<>>
       \/ \E i \in 1..Len(l.items) : l.items[i].type # "str"

Member(r, l) == r.exc = "none" /\ \E i \in 1..Len(l.items) : r.val = l.items[i]

\* C16: on a non-empty list of canonical YYYY-MM-DD strings earliest_date
\* and latest_date each return a member of the list, the earliest being at
\* most and the latest at least every element in string order; on an empty
\* list, or a list with an element that is not a str, both raise ValueError.
C16_ExtremesAreMembers ==
    /\ (CanonicalDates(date_list) /\ earliest # Pending) =>
          /\ Member(earliest, date_list)
          /\ \A i \in 1..Len(date_list.items) :
                TextLeq(earliest.val.chars, date_list.items[i].chars)
    /\ (CanonicalDates(date_list) /\ latest # Pending) =>
          /\ Member(latest, date_list)
          /\ \A i \in 1..Len(date_list.items) :
                TextLeq(date_list.items[i].chars, latest.val.chars)
    /\ (EmptyOrNonStr(date_list) /\ earliest # Pending) =>
          earliest.exc = "ValueError"
    /\ (EmptyOrNonStr(date_list) /\ latest # Pending) =>
          latest.exc = "ValueError"

\* both extremes of a list of three distinct canonical dates have been
\* taken, and they differ
C16_Witness ==
    /\ CanonicalDates(date_list)
    /\ Len(date_list.items) = 3
    /\ date_list.items[1] # date_list.items[2]
    /\ earliest # Pending
    /\ latest # Pending
    /\ earliest.exc = "none"
    /\ latest.exc = "none"
    /\ earliest.val # latest.val
    /\ earliest.val # date_list.items[1]

-----------------------------------------------------------------------------
(* Properties of PubAnalyzer, checked under SpecAnalyzer *)

\* dict[key]
Get(dict, key) ==
    dict.items[CHOOSE k \in 1..Len(dict.items) : dict.items[k][1] = key][2]

\* a float equals an int
FloatIs(f, v) ==
    /\ f.type = "float"
    /\ v.type = "int"
    /\ f.items[1] = NumberOfInt(v) * f.items[2]

\* a FilteredPub with its three dates and three intervals
Complete(pub) ==
    \A k \in 4..9 : pub.items[k].type # "NoneType"

\* C18: basic_search_results of an analyzer given no result (an empty list
\* or None) is the empty dict and nothing is raised; of an analyzer given
\* exactly one record with every date and interval, no_of_pubs is 1, each
\* min and max date is the record's date and each average is the record's
\* interval.
C18_EmptyAndSingle ==
    /\ (~Truthy(filtered_pubs) /\ summary # Pending) =>
          summary = Returned(PyDict(<<>>))
    /\ (/\ Truthy(filtered_pubs)
        /\ Len(filtered_pubs.items) = 1
        /\ Complete(filtered_pubs.items[1])
        /\ summary # Pending) =>
          /\ summary.exc = "none"
          /\ summary.val.type = "dict"
          /\ Get(summary.val, "no_of_pubs") = IntOf(1)
          /\ \A k \in 1..6 :
                Get(summary.val, ComputedKeys[k]) =
                    Field(filtered_pubs.items[1], ComputedOf[k])
          /\ FloatIs(Get(summary.val, "average_ra"),
                     Field(filtered_pubs.items[1], "received_2_accepted"))
          /\ FloatIs(Get(summary.val, "average_rp"),
                     Field(filtered_pubs.items[1], "received_2_published"))
          /\ FloatIs(Get(summary.val, "average_ap"),
                     Field(filtered_pubs.items[1], "accepted_2_published"))

\* the summary of exactly one complete record has been computed
C18_Witness ==
    /\ Truthy(filtered_pubs)
    /\ Len(filtered_pubs.items) = 1
    /\ Complete(filtered_pubs.items[1])
    /\ summary.exc = "none"
    /\ Get(summary.val, "average_ra") # Get(summary.val, "average_ap")

RECURSIVE SumOfCounts(_)
\* the sum of the counts of a Counter's items
SumOfCounts(pairs) ==
    IF pairs = <<>> THEN 0
    ELSE NumberOfInt(Head(pairs)[2]) + SumOfCounts(Tail(pairs))

\* the summary has the key
HasKey(dict, key) == \E k \in 1..Len(dict.items) : dict.items[k][1] = key

\* C19: for every non-empty list of FilteredPub a search can produce,
\* records with an absent date and absent intervals included,
\* basic_search_results raises nothing and returns the total count, the
\* occurrence counts of the publishers and of the journals, each summing to
\* the total, the min and max of the three date families and the mean of
\* the three intervals.
C19_SummaryOfEveryResult ==
    (Truthy(filtered_pubs) /\ summary # Pending) =>
        /\ summary.exc = "none"
        /\ summary.val.type = "dict"
        /\ Get(summary.val, "no_of_pubs") = IntOf(Len(filtered_pubs.items))
        /\ SumOfCounts(Get(summary.val, "publishers").items) =
              Len(filtered_pubs.items)
        /\ SumOfCounts(Get(summary.val, "journals").items) =
              Len(filtered_pubs.items)
        /\ \A k \in 1..Len(ComputedKeys) : HasKey(summary.val, ComputedKeys[k])

-----------------------------------------------------------------------------
(* Properties of the ``pub`` table, checked under Spec *)

Rows(t) == {t[i] : i \in 1..Len(t)}

\* the rows of t that have the DOI, compared without regard to case
WithDoi(t, doi) == {r \in Rows(t) : NoCaseEqual(r.doi, doi)}

Called(name) == op.name = name

\* C5: add_entry returns (duplicate, inserted), and what it returns says what
\* it did.  No stored record has the DOI: (False, True), and the entry is
\* added.  A stored record has it and overwrite is False: (True, False), and
\* the table is as it was.  A stored record has it and overwrite is True:
\* (True, True), the stored record is gone and the entry stands in its place.
\* (False, False) is never returned, and the call never raises.
C5_AddEntryOutcomes ==
    Called("add_entry") =>
        LET stored == WithDoi(before, op.args.doi) # {}
        IN  /\ ret.exc = "none"
            /\ ret.val \in {<<FALSE, TRUE>>, <<TRUE, FALSE>>, <<TRUE, TRUE>>}
            /\ (~stored) =>
                  /\ ret.val = <<FALSE, TRUE>>
                  /\ table = Append(before, op.args)
            /\ (stored /\ ~op.overwrite) =>
                  /\ ret.val = <<TRUE, FALSE>>
                  /\ table = before
            /\ (stored /\ op.overwrite) =>
                  /\ ret.val = <<TRUE, TRUE>>
                  /\ WithDoi(table, op.args.doi) = {op.args}
                  /\ Rows(table) =
                        (Rows(before) \ WithDoi(before, op.args.doi))
                            \cup {op.args}
                  /\ Len(table) = Len(before)

\* an overwriting add_entry has replaced a record whose DOI is spelled in
\* the other case and whose metadata differ, next to a record that stays
C5_Witness ==
    /\ Called("add_entry")
    /\ op.overwrite
    /\ ret.exc = "none"
    /\ ret.val = <<TRUE, TRUE>>
    /\ Len(before) = 2
    /\ \E r \in WithDoi(before, op.args.doi) :
          /\ r.doi # op.args.doi
          /\ r.title # op.args.title

\* C6: whatever add_entry, delete_entry and update_entry calls were made, no
\* two stored records have the same DOI compared without regard to case, and
\* an add_entry with a DOI that is stored does not make the table longer.
C6_OneRecordPerDoi ==
    /\ \A i, j \in 1..Len(table) :
          i # j => ~NoCaseEqual(table[i].doi, table[j].doi)
    /\ (Called("add_entry") /\ WithDoi(before, op.args.doi) # {}) =>
          Len(table) <= Len(before)

\* add_entry was given "10/A" while "10/a" was stored, and the table holds
\* two records still
C6_Witness ==
    /\ Called("add_entry")
    /\ Len(table) = 2
    /\ Len(before) = 2
    /\ \E r \in Rows(before) :
          /\ r.doi # op.args.doi
          /\ NoCaseEqual(r.doi, op.args.doi)

\* C7: update_entry raises PermissionError whatever it is given and leaves
\* the table as it was; a stored record's fields change in one call only
\* when that call is add_entry with overwrite=True.
C7_UpdateRefused ==
    /\ Called("update_entry") =>
          /\ ret.exc = "PermissionError"
          /\ table = before
    /\ (\E r \in Rows(before) :
            \E r2 \in WithDoi(table, r.doi) : r2 # r) =>
          (Called("add_entry") /\ op.overwrite)

\* update_entry was given new metadata for a stored record
C7_Witness ==
    /\ Called("update_entry")
    /\ ret.exc = "PermissionError"
    /\ op.args # NoKwargs
    /\ \E r \in Rows(before) : r.doi = op.args.doi /\ r # op.args

\* a stored row has the normalized publisher
HasPublisher(t, publisher) ==
    \E i \in 1..Len(t) : t[i].normalized_publisher = publisher

\* a stored row of the publisher has the normalized journal
HasJournal(t, publisher, journal) ==
    \E i \in 1..Len(t) : /\ t[i].normalized_publisher = publisher
                          /\ t[i].normalized_journal = journal

\* the aggregate query is the last query of a call and follows the queries
\* of the existence checks
ChecksThenAggregate(qs) ==
    /\ qs # <<>>
    /\ qs[1] = Q_publishers
    /\ \A i \in 1..Len(qs) : qs[i] = Q_aggregate => (i = Len(qs) /\ i > 1)

\* C17: get_publisher_summary(p) returns None when no stored record has the
\* normalized publisher p, and get_journal_summary(p, j) returns None when
\* no stored record of p has the normalized journal j (p having no record
\* included); no empty list and no aggregate row is returned then, the
\* aggregate query is not executed, and when it is executed it follows the
\* existence checks.
C17_NotFoundIsNone ==
    /\ (Called("get_publisher_summary") \/ Called("get_journal_summary")) =>
          ChecksThenAggregate(queries)
    /\ (/\ Called("get_publisher_summary")
        /\ ~HasPublisher(table, op.args.publisher)) =>
          /\ ret = Returned(PyNone)
          /\ ~In(Q_aggregate, queries)
    /\ (/\ Called("get_journal_summary")
        /\ ~HasJournal(table, op.args.publisher, op.args.journal)) =>
          /\ ret = Returned(PyNone)
          /\ ~In(Q_aggregate, queries)

\* a journal summary has been asked for a stored publisher and a journal
\* only another publisher has, and None returned after the two existence
\* checks
C17_Witness ==
    /\ Called("get_journal_summary")
    /\ HasPublisher(table, op.args.publisher)
    /\ ~HasJournal(table, op.args.publisher, op.args.journal)
    /\ \E i \in 1..Len(table) : table[i].normalized_journal = op.args.journal
    /\ ret = Returned(PyNone)
    /\ queries = <<Q_publishers, Q_publishers, Q_journals>>

\* the rows of t whose DOI is not the given one, in their order
OtherRows(t, doi) == SelectSeq(t, LAMBDA r : r.doi # doi)

\* the rows of t whose DOI is not the given one whatever the case of its
\* letters, in their order
OtherRowsNoCase(t, doi) == SelectSeq(t, LAMBDA r : ~NoCaseEqual(r.doi, doi))

\* a row of t has exactly the DOI
Stored(t, doi) == \E i \in 1..Len(t) : t[i].doi = doi

\* what a delete_entry call just made has returned and done
DeleteOutcome ==
    Called("delete_entry") =>
        /\ ret.exc = "none"
        /\ ret.val \in BOOLEAN
        /\ ret.val = TRUE <=>
              (Stored(before, op.args.doi) /\ ~Stored(table, op.args.doi))
        /\ ret.val = TRUE <=>
              (WithDoi(before, op.args.doi) # {} /\ WithDoi(table, op.args.doi) = {})
        /\ ~Stored(before, op.args.doi) => (ret.val = FALSE /\ table = before)
        /\ OtherRows(table, op.args.doi) = OtherRows(before, op.args.doi)
        /\ OtherRowsNoCase(table, op.args.doi) =
              OtherRowsNoCase(before, op.args.doi)

\* an add_entry that follows a delete_entry of its DOI that returned True
\* reports (duplicate, inserted) = (False, True)
AddAfterDelete ==
    (/\ Called("delete_entry")
     /\ ret = Returned(TRUE)
     /\ op'.name = "add_entry"
     /\ op'.args.doi = op.args.doi) =>
        /\ ret' = Returned(<<FALSE, TRUE>>)
        /\ Stored(table', op.args.doi)

\* C21: delete_entry(doi) returns True exactly when a record with the DOI
\* was stored before the call and none is stored after it; when none is
\* stored it returns False and the table is as it was; the records with
\* another DOI are left as they were in both cases; an add_entry of the
\* same DOI right after a True reports (duplicate=False, inserted=True).
C21_DeleteThenAdd == [][DeleteOutcome' /\ AddAfterDelete]_vars

\* a delete_entry has returned True and left the record of another DOI
C21_Witness ==
    /\ Called("delete_entry")
    /\ ret = Returned(TRUE)
    /\ Len(before) = 2
    /\ Len(table) = 1
    /\ table[1].doi # op.args.doi

-----------------------------------------------------------------------------
(* Properties of PubReSearcher, checked under SpecResearcher *)

\* search_summary has been read since the last search_pub
SummaryRead == report # Pending

\* the report is the one message
IsMessage(r, text) == r = Returned(Report(<<Line(text, 0, <<>>)>>))

\* the text the report shows for a label of the statistics
Shown(r, label) ==
    r.val.items[CHOOSE k \in 1..Len(r.val.items) : r.val.items[k].label = label].text

\* the distinct values of a field of the records
DistinctOf(pubs, name) == {Field(pubs.items[i], name) : i \in 1..Len(pubs.items)}

\* the report is the statistics report of the records pubs: the heading, the
\* twelve statistics, and a line for every publisher and for every journal
IsStatistics(r, pubs) ==
    /\ r.exc = "none"
    /\ r.val.items[1] = Line("Search Summary", 0, <<>>)
    /\ \A k \in 1..Len(Statistics) :
           \E i \in 1..Len(r.val.items) : r.val.items[i].label = Statistics[k][1]
    /\ Shown(r, "no_of_publications") = IntOf(Len(pubs.items)).chars
    /\ Shown(r, "no_of_publishers") =
          IntOf(Cardinality(DistinctOf(pubs, "publisher"))).chars
    /\ Shown(r, "no_of_journals") =
          IntOf(Cardinality(DistinctOf(pubs, "journal"))).chars
    /\ Len(r.val.items) =
          1 + Len(Statistics) + 1 + Cardinality(DistinctOf(pubs, "publisher"))
            + 1 + Cardinality(DistinctOf(pubs, "journal"))

\* C22: for a PubReSearcher constructed without results, search_summary is
\* the "No searches were yet performed" message in every state before the
\* first search_pub call that returns and never after one has returned;
\* after a search_pub that matched no record it is "No publications satisfy
\* the inputted criteria.", and after one that matched at least one record
\* it is the statistics report built of the analyzer's data; the analyzer's
\* data always equals the current filtered_pubs.
C22_SummaryOfSession ==
    /\ analyzer_filtered_pubs = researcher_filtered_pubs
    /\ SummaryRead =>
          /\ IsMessage(report, MsgNoSearch) <=> ~has_returned
          /\ (has_returned /\ ~Truthy(researcher_filtered_pubs)) =>
                IsMessage(report, MsgNoPubs)
          /\ (has_returned /\ Truthy(researcher_filtered_pubs)) =>
                IsStatistics(report, researcher_filtered_pubs)

\* the step is a call of search_pub
SearchPubCalled == op'.name = "filter_pjt" /\ report' = Pending

\* the call leaves the session as it was
SessionUnchanged ==
    /\ researcher_filtered_pubs' = researcher_filtered_pubs
    /\ search_performed' = search_performed
    /\ analyzer_filtered_pubs' = analyzer_filtered_pubs

\* C23: a search_pub call that fails with ValueError because of an invalid
\* filter leaves the session unchanged: filtered_pubs, the search-performed
\* flag and the data loaded in the analyzer keep the values they had before
\* the call, so the results of an earlier search stay; and no search_pub
\* call, failing or not, modifies the store.
C23_FailedSearchKeepsSession ==
    [][SearchPubCalled =>
          /\ table' = table
          /\ ret'.exc = "ValueError" => SessionUnchanged]_vars

\* a search failed with ValueError after an earlier one had found records,
\* and the records are still there
C23_Witness ==
    /\ op.name = "filter_pjt"
    /\ ret.exc = "ValueError"
    /\ has_returned
    /\ search_performed
    /\ Len(researcher_filtered_pubs.items) >= 2
    /\ analyzer_filtered_pubs = researcher_filtered_pubs

=============================================================================
